---- MODULE Spec2Model ----
(***************************************************************************)
(* Model of the MaaS key-manager / maas-api control plane and of the API   *)
(* key introspection endpoint.                                             *)
(*                                                                         *)
(* The relational store (users, teams, policies, team_memberships, models, *)
(* model_grants, api_keys) is the state.  Every HTTP handler is one action  *)
(* that runs the middleware chain registered for its route and then the    *)
(* handler body, and leaves the response it wrote in `resp`.               *)
(*                                                                         *)
(* Strings whose text matters (tokens, key hashes) are sequences of byte   *)
(* codes; identifiers (UUIDs, ext_ids, names) are TLA+ strings drawn from  *)
(* pools.                                                                  *)
(***************************************************************************)
EXTENDS Integers, Sequences, FiniteSets, TLC

(***************************************************************************)
(* Bounds of the model.                                                    *)
(***************************************************************************)
MaxUsers == 2
MaxTeams == 1
MaxPolicies == 1
MaxModels == 1
MaxKeys == 1
NumPrefixes == 2
NumBodies == 2
MaxInflight == 2

(***************************************************************************)
(* Pools of identifiers.  A bound selects a prefix of its pool.            *)
(***************************************************************************)
NULL == "NULL"

Pick(pool, n) == {pool[i] : i \in 1..(IF n < Len(pool) THEN n ELSE Len(pool))}

UserUUIDPool == <<"user-uuid-1", "user-uuid-2", "user-uuid-3", "user-uuid-4">>
SubjectPool == <<"kc-sub-1", "kc-sub-2", "kc-sub-3", "kc-sub-4">>
TeamUUIDPool == <<"team-uuid-1", "team-uuid-2", "team-uuid-3", "team-uuid-4">>
ExtIDPool == <<"default", "team-orange", "team-blue", "team-green">>
PolicyUUIDPool == <<"policy-uuid-1", "policy-uuid-2", "policy-uuid-3">>
PolicyNamePool == <<"free", "premium", "enterprise">>
ModelUUIDPool == <<"model-uuid-1", "model-uuid-2", "model-uuid-3", "model-uuid-4">>
ModelNamePool == <<"llama", "qwen", "granite", "mistral">>
KeyUUIDPool == <<"key-uuid-1", "key-uuid-2", "key-uuid-3", "key-uuid-4">>

UserUUIDs == Pick(UserUUIDPool, MaxUsers)
Subjects == Pick(SubjectPool, MaxUsers)
TeamUUIDs == Pick(TeamUUIDPool, MaxTeams)
ExtIDs == Pick(ExtIDPool, MaxTeams)
PolicyUUIDs == Pick(PolicyUUIDPool, MaxPolicies)
PolicyNames == Pick(PolicyNamePool, MaxPolicies)
ModelUUIDs == Pick(ModelUUIDPool, MaxModels)
ModelNames == Pick(ModelNamePool, MaxModels)
KeyUUIDs == Pick(KeyUUIDPool, MaxKeys)

\* An identity-provider subject that is itself UUID-formatted (keycloak_user_id
\* is TEXT; the subjects of SubjectPool are not UUID-formatted).
UUIDSubject == "kc-uuid-sub"

\* uuid.Parse succeeds exactly on the UUID-formatted identifiers.
AllUUIDs == UserUUIDs \cup TeamUUIDs \cup PolicyUUIDs \cup ModelUUIDs \cup KeyUUIDs
                \cup {UUIDSubject}
IsUUID(s) == s \in AllUUIDs

\* uuid.New(): a value not used by any row of the table (NULL once the pool
\* of the model is used up; the guards of the actions keep rows within it).
FreshUUID(pool, used) == IF pool \ used = {} THEN NULL ELSE CHOOSE u \in pool \ used : TRUE

VARIABLES users, teams, policies, memberships, models, grants, api_keys, resp,
          doc, inflight

vars == <<users, teams, policies, memberships, models, grants, api_keys, resp, doc, inflight>>
store == <<users, teams, policies, memberships, models, grants, api_keys>>

(***************************************************************************)
(* Byte strings.  A token or key is a sequence of byte codes.              *)
(***************************************************************************)
PrefixLen == 8
KeyLen == 43
NUL == 0
Backslash == 92
LowerX == 120

\* base64.RawURLEncoding output of the 32 random bytes: the model draws it
\* from the keys whose first PrefixLen characters are the p-th upper-case
\* letter and whose remaining characters are the b-th lower-case letter.
MkKey(p, b) == [i \in 1..KeyLen |-> IF i <= PrefixLen THEN 64 + p ELSE 96 + b]
KeySpace == {MkKey(p, b) : p \in 1..NumPrefixes, b \in 1..NumBodies}

HasPrefix(s, pre) == Len(s) >= Len(pre) /\ SubSeq(s, 1, Len(pre)) = pre

\* strings.TrimRight(s, "\x00")
RECURSIVE TrimRightNUL(_)
TrimRightNUL(s) ==
    IF Len(s) > 0 /\ s[Len(s)] = NUL THEN TrimRightNUL(SubSeq(s, 1, Len(s) - 1)) ELSE s

\* hex digits: '0'..'9' are 48..57, 'a'..'f' are 97..102
HexDigit(n) == IF n < 10 THEN 48 + n ELSE 87 + n
IsHexDigit(c) == (c >= 48 /\ c <= 57) \/ (c >= 97 /\ c <= 102) \/ (c >= 65 /\ c <= 70)
HexValue(c) == IF c <= 57 THEN c - 48 ELSE IF c >= 97 THEN c - 87 ELSE c - 55

\* PostgreSQL's hex output of a bytea value, without the leading \x
RECURSIVE HexEncode(_)
HexEncode(s) ==
    IF s = <<>> THEN <<>>
    ELSE <<HexDigit(s[1] \div 16), HexDigit(s[1] % 16)>> \o HexEncode(Tail(s))

\* hex.DecodeString: [ok, bytes]
RECURSIVE HexDecodeBytes(_)
HexDecodeBytes(h) ==
    IF h = <<>> THEN <<>>
    ELSE <<HexValue(h[1]) * 16 + HexValue(h[2])>> \o HexDecodeBytes(Tail(Tail(h)))

HexDecodeString(h) ==
    IF Len(h) % 2 = 0 /\ \A i \in 1..Len(h) : IsHexDigit(h[i])
    THEN [ok |-> TRUE, bytes |-> HexDecodeBytes(h)]
    ELSE [ok |-> FALSE, bytes |-> <<>>]

\* The two textual forms in which the driver hands a bytea key_hash to Scan.
ByteaForms == {"raw", "hex"}
ScanBytea(bytes, form) ==
    IF form = "hex" THEN <<Backslash, LowerX>> \o HexEncode(bytes) ELSE bytes

BadVerifyAPIKey(providedKey, storedHash) ==
    IF HasPrefix(storedHash, <<Backslash, LowerX>>)
    THEN LET dec == HexDecodeString(SubSeq(storedHash, 3, Len(storedHash)))
         IN  IF ~dec.ok THEN FALSE
             ELSE HasPrefix(TrimRightNUL(dec.bytes), SubSeq(providedKey, 1, PrefixLen))
    ELSE HasPrefix(storedHash, SubSeq(providedKey, 1, PrefixLen))

verifyAPIKey(providedKey, storedHash) ==
    IF HasPrefix(storedHash, <<Backslash, LowerX>>)
    THEN LET dec == HexDecodeString(SubSeq(storedHash, 3, Len(storedHash)))
         IN  IF ~dec.ok THEN FALSE
             ELSE TrimRightNUL(dec.bytes) = providedKey
    ELSE storedHash = providedKey

\* Manager.generateAPIKey, given the base64 text of the random draw
generateAPIKey(apiKey) ==
    [apiKey |-> apiKey, keyHash |-> apiKey, keyPrefix |-> SubSeq(apiKey, 1, PrefixLen)]

(***************************************************************************)
(* Repository: queries over the tables.  A query result is either a row or *)
(* NullRow (sql.ErrNoRows or an error).                                     *)
(***************************************************************************)
NullRow == [id |-> NULL]
IsNull(row) == row.id = NULL
RowOrNull(rows) == IF rows = {} THEN NullRow ELSE CHOOSE r \in rows : TRUE

FindUserByKeycloakID(kc) == RowOrNull({u \in users : u.keycloak_user_id = kc})
GetUserByID(id) == RowOrNull({u \in users : u.id = id})
GetTeamByID(id) == RowOrNull({t \in teams : t.id = id})
GetTeamByExtID(ext) == RowOrNull({t \in teams : t.ext_id = ext})
GetTeam(id) == RowOrNull({t \in teams : t.id = id})
GetPolicy(id) == RowOrNull({p \in policies : p.id = id})
GetAPIKeyByPrefix(prefix) == RowOrNull({k \in api_keys : k.key_prefix = prefix})
IsTeamMember(teamID, userID) == \E m \in memberships : m.team_id = teamID /\ m.user_id = userID
GetUserTeamMemberships(userID) == {m \in memberships : m.user_id = userID}
ListUserAPIKeys(userID) == {k \in api_keys : k.user_id = userID}
ListTeamAPIKeys(teamID) == {k \in api_keys : k.team_id = teamID}

\* resolveTeamRef: a reference that parses as a UUID is looked up by id,
\* any other by ext_id.
resolveTeamRef(teamRef) ==
    IF IsUUID(teamRef) THEN GetTeamByID(teamRef) ELSE GetTeamByExtID(teamRef)

\* WHERE (mg.team_id = $1 OR (mg.team_id = $1 AND mg.user_id = $2))
GrantMatches(mg, userID, teamID) ==
    mg.team_id = teamID \/ (mg.team_id = teamID /\ mg.user_id = userID)

\* WHERE mg.team_id = $1 AND (mg.user_id IS NULL OR mg.user_id = $2)
GrantMatchesStrict(mg, userID, teamID) ==
    mg.team_id = teamID /\ (mg.user_id = NULL \/ mg.user_id = userID)

ModelNameOf(modelID) == (CHOOSE m \in models : m.id = modelID).name

GetUserModelsAllowed(userID, teamID) ==
    {ModelNameOf(mg.model_id) : mg \in {g \in grants : GrantMatches(g, userID, teamID)}}

GetUserModelAccess(userID, teamID) ==
    {ModelNameOf(mg.model_id) : mg \in {g \in grants : GrantMatchesStrict(g, userID, teamID)}}

ListTeams == teams

(***************************************************************************)
(* Policy document: the one TokenRateLimitPolicy of the deployment, kept   *)
(* by the orchestrator and rewritten by PolicyManager.  spec.limits is a   *)
(* map keyed by ext_id; the model holds it as the set of its entries.      *)
(* Text whose characters matter is a sequence of pieces.                   *)
(***************************************************************************)
NoDocument == [exists |-> FALSE, limits |-> {}]

\* auth.identity.groups.split(",").exists(g, g == "<ext_id>")
PredicateText(extID) ==
    <<"auth.identity.groups.split(\",\").exists(g, g == ", "\"", extID, "\"", ")">>

LimitEntry(extID, limit, window) ==
    [ext_id |-> extID, limit |-> limit, window |-> window, when |-> PredicateText(extID),
     counters |-> "auth.identity.userid"]

\* Upsert: the document read, with the entry of extID replaced; a missing
\* document is created.
AddTeamToTokenRateLimit(d, extID, limit, window) ==
    [exists |-> TRUE,
     limits |-> {e \in d.limits : e.ext_id # extID} \cup {LimitEntry(extID, limit, window)}]

\* Remove: the document read, with the entry of extID dropped.
RemoveTeamFromTokenRateLimit(d, extID) ==
    [d EXCEPT !.limits = {e \in @ : e.ext_id # extID}]

\* Outcomes of a call of the orchestrator: it answers, or it is unreachable.
SyncOutcomes == {"ok", "failed"}

(***************************************************************************)
(* Identity headers and role gates (package auth).                         *)
(***************************************************************************)
RoleNames == {"maas-admin", "maas-user", "viewer"}
RoleLists == {<<>>} \cup {<<r>> : r \in RoleNames}

\* JWTAuthMiddleware: 0 = continue, otherwise the status it aborts with
JWTAuthMiddleware(subject) == IF subject = "" THEN 401 ELSE 0

HasRole(roles, wanted) == \E i \in 1..Len(roles) : roles[i] \in wanted

BadUserContextMiddleware(roles) == 0

UserContextMiddleware(roles) ==
    IF HasRole(roles, {"maas-admin", "maas-user"}) THEN 0 ELSE 403

AdminRequiredMiddleware(roles) ==
    IF HasRole(roles, {"maas-admin"}) THEN 0 ELSE 403

\* authRoutes := router.Group("/", JWTAuthMiddleware());
\* userRoutes := authRoutes.Group("/", UserContextMiddleware())
UserRoutesGate(subject, roles) ==
    IF JWTAuthMiddleware(subject) # 0 THEN JWTAuthMiddleware(subject)
    ELSE UserContextMiddleware(roles)

Callers == Subjects \cup {""}

(***************************************************************************)
(* Responses.  resp is the last response written: the endpoint, the        *)
(* identity headers and the parameters of the request it answers, the HTTP *)
(* status and the JSON body.                                               *)
(***************************************************************************)
\* What a request carries in its identity headers.
Caller(subject, roles) == [subject |-> subject, roles |-> roles]
Anonymous == Caller("", <<>>)
NoParams == [none |-> TRUE]

Respond(ep, caller, req, status, body) ==
    resp' = [ep |-> ep, caller |-> caller, req |-> req, status |-> status, body |-> body]

ErrorBody(msg) == [error |-> msg]

\* The routes registered on userRoutes.
UserRoutes ==
    {"GET /profile", "GET /users/:user_id/keys", "POST /users/:user_id/keys", "GET /usage",
     "GET /teams", "POST /teams", "GET /teams/:team_id", "PATCH /teams/:team_id",
     "DELETE /teams/:team_id", "POST /teams/:team_id/members", "GET /teams/:team_id/members",
     "DELETE /teams/:team_id/members/:user_id", "POST /teams/:team_id/grants",
     "POST /teams/:team_id/keys", "GET /teams/:team_id/keys", "DELETE /keys/:key_name",
     "GET /models"}

\* A middleware of the chain aborts (c.Abort): the handler never runs.
RefuseRequest(ep, subject, roles) ==
    /\ UserRoutesGate(subject, roles) # 0
    /\ Respond(ep, Caller(subject, roles), NoParams, UserRoutesGate(subject, roles),
               ErrorBody("refused"))
    /\ UNCHANGED <<store, doc, inflight>>

Init ==
    /\ users = {}
    /\ teams = {}
    /\ policies = {}
    /\ memberships = {}
    /\ models = {}
    /\ grants = {}
    /\ api_keys = {}
    /\ doc = NoDocument
    /\ inflight = {}
    /\ resp = [ep |-> "none", caller |-> Anonymous, req |-> NoParams, status |-> 0,
               body |-> ErrorBody("")]

TeamRefs == TeamUUIDs \cup ExtIDs
UserRefs == UserUUIDs \cup {"me", "not-a-uuid"}

(***************************************************************************)
(* GET /profile  (IdentityHandler.Profile)                                 *)
(***************************************************************************)
CreateUser(kc) ==
    [id |-> FreshUUID(UserUUIDs, {u.id : u \in users}), keycloak_user_id |-> kc]

Profile(subject, roles) ==
    LET found == FindUserByKeycloakID(subject)
        user == IF ~IsNull(found) THEN found ELSE CreateUser(subject)
        defaultTeam == GetTeamByExtID("default")
    IN  /\ UserRoutesGate(subject, roles) = 0
        /\ users' = users \cup {user}
        /\ memberships' =
             IF ~IsNull(defaultTeam) /\ ~IsTeamMember(defaultTeam.id, user.id)
             THEN memberships \cup
                    {[team_id |-> defaultTeam.id, user_id |-> user.id, role |-> "member"]}
             ELSE memberships
        /\ Respond("GET /profile", Caller(subject, roles), NoParams, 200,
                   [id |-> user.id, keycloak_user_id |-> user.keycloak_user_id])
        /\ UNCHANGED <<teams, policies, models, grants, api_keys, doc, inflight>>

(***************************************************************************)
(* Tenants: POST /teams, GET /teams, GET /teams/:team_id,                  *)
(* PATCH /teams/:team_id, DELETE /teams/:team_id  (TeamsHandler)           *)
(***************************************************************************)
RateLimits == {0, 50}
DefaultRateLimit == 100

\* rate_window texts a body may name: the empty text, a duration, and a
\* text that is no duration.
DefaultRateWindow == <<"1", "m">>
RateWindows == {<<>>, <<"5", "m">>, <<"1", "x">>}

\* "Set defaults if not provided"
CreateTeamDefaults(rateLimit, rateWindow) ==
    [rate_limit |-> IF rateLimit = 0 THEN DefaultRateLimit ELSE rateLimit,
     rate_window |-> IF rateWindow = <<>> THEN DefaultRateWindow ELSE rateWindow]

\* fmt.Sprintf("%d", n) of a non-negative n, as its digits
RECURSIVE DecimalText(_)
DecimalText(n) ==
    LET digit == <<"0", "1", "2", "3", "4", "5", "6", "7", "8", "9">>[(n % 10) + 1]
    IN  IF n < 10 THEN <<digit>> ELSE Append(DecimalText(n \div 10), digit)

\* The rate_limit_spec the handler derives from the scalars:
\* {"rates":[{"limit":<limit>,"window":"<window>"}]}
DerivedRateLimitSpec(rateLimit, rateWindow) ==
    <<"{\"rates\":[{\"limit\":">> \o DecimalText(rateLimit)
        \o <<",\"window\":\"">> \o rateWindow \o <<"\"}]}">>

\* rate_limit_spec texts a body may name: none, and a JSON of the caller.
RateLimitSpecs == {<<>>, <<"{\"rates\":[]}">>}

\* "Set defaults if not provided", rate_limit_spec
CreateTeamSpec(rateLimit, rateWindow, rateLimitSpec) ==
    IF rateLimitSpec = <<>> THEN DerivedRateLimitSpec(rateLimit, rateWindow)
    ELSE rateLimitSpec

\* Repository.CreateTeam's INSERT; the maas-api schema has no policy column.
\* rate_limit_spec takes the column default where the INSERT names none.
NewTeamRow(extID, rateLimit, rateWindow, defaultPolicyID) ==
    [id |-> FreshUUID(TeamUUIDs, {t.id : t \in teams}), ext_id |-> extID,
     rate_limit |-> rateLimit, rate_window |-> rateWindow,
     rate_limit_spec |-> <<"{}">>,
     default_policy_id |-> defaultPolicyID]

\* What the handler leaves of the document after its call of PolicyManager:
\* the rewritten document, or the document as it was when the call failed
\* (the error is logged as a warning).
SyncedDocument(sync, rewritten) == IF sync = "ok" THEN rewritten ELSE doc

BadSyncCreatedTeam(sync, team) ==
    SyncedDocument(sync, AddTeamToTokenRateLimit(doc, team.id, team.rate_limit,
                                                 team.rate_window))

\* CreateTeam: "Sync rate limits to Kuadrant TokenRateLimitPolicy"
SyncCreatedTeam(sync, team) ==
    SyncedDocument(sync, AddTeamToTokenRateLimit(doc, team.ext_id, team.rate_limit,
                                                 team.rate_window))

BadSyncDeletedTeam(sync, team) == doc

\* DeleteTeam: "Cleanup Kuadrant rate limits for the team"
SyncDeletedTeam(sync, team) ==
    SyncedDocument(sync, RemoveTeamFromTokenRateLimit(doc, team.ext_id))

BadSyncStatus(sync) == IF sync = "ok" THEN 200 ELSE 502

\* The status the tenant handlers answer once the database write is done,
\* whatever the call of PolicyManager returned.
SyncStatus(sync) == 200

TeamBody(team) ==
    [id |-> team.id, ext_id |-> team.ext_id, rate_limit |-> team.rate_limit,
     rate_window |-> team.rate_window, rate_limit_spec |-> team.rate_limit_spec]

\* The row the handler has Repository.CreateTeam insert.
CreatedTeamRow(extID, rateLimit, rateWindow, rateLimitSpec) ==
    LET set == CreateTeamDefaults(rateLimit, rateWindow)
    IN  [NewTeamRow(extID, set.rate_limit, set.rate_window, NULL) EXCEPT
            !.rate_limit_spec = CreateTeamSpec(set.rate_limit, set.rate_window, rateLimitSpec)]

CreateTeamWithSpec(subject, roles, extID, rateLimit, rateWindow, rateLimitSpec, sync) ==
    LET ep == "POST /teams"
        caller == Caller(subject, roles)
        req == [ext_id |-> extID, rate_limit |-> rateLimit, rate_window |-> rateWindow,
                rate_limit_spec |-> rateLimitSpec, sync |-> sync]
        row == CreatedTeamRow(extID, rateLimit, rateWindow, rateLimitSpec)
    IN  /\ UserRoutesGate(subject, roles) = 0
        /\ UNCHANGED <<users, policies, memberships, models, grants, api_keys, inflight>>
        /\ IF ~IsNull(GetTeamByExtID(extID))
           THEN /\ Respond(ep, caller, req, 409, ErrorBody("Team external ID already exists"))
                /\ UNCHANGED <<teams, doc>>
           ELSE /\ Cardinality(teams) < MaxTeams
                /\ teams' = teams \cup {row}
                /\ doc' = SyncCreatedTeam(sync, row)
                /\ Respond(ep, caller, req, SyncStatus(sync), TeamBody(row))

\* POST /teams with a body that names no rate_limit_spec
CreateTeam(subject, roles, extID, rateLimit, rateWindow, sync) ==
    CreateTeamWithSpec(subject, roles, extID, rateLimit, rateWindow, <<>>, sync)

ListTeamsHandler(subject, roles) ==
    /\ UserRoutesGate(subject, roles) = 0
    /\ Respond("GET /teams", Caller(subject, roles), NoParams, 200,
               [teams |-> {t.id : t \in ListTeams}])
    /\ UNCHANGED <<store, doc, inflight>>

\* GetTeam with the outcome of the store's query: fault is TRUE when
\* QueryRowContext fails for a reason other than an absent row.  Either way
\* the repository returns a non-nil error and the handler answers 404.
GetTeamQuery(subject, roles, teamRef, fault) ==
    LET team == IF fault THEN NullRow ELSE resolveTeamRef(teamRef)
        caller == Caller(subject, roles)
        req == [team_id |-> teamRef, fault |-> fault]
    IN  /\ UserRoutesGate(subject, roles) = 0
        /\ IF IsNull(team)
           THEN Respond("GET /teams/:team_id", caller, req, 404, ErrorBody("Team not found"))
           ELSE Respond("GET /teams/:team_id", caller, req, 200,
                        [id |-> team.id, ext_id |-> team.ext_id])
        /\ UNCHANGED <<store, doc, inflight>>

GetTeamHandler(subject, roles, teamRef) == GetTeamQuery(subject, roles, teamRef, FALSE)

\* A PATCH body: each field of UpdateTeamRequest is a pointer, nil when the
\* body does not name it.
Patch(hasName, hasRateLimit, rateLimit, hasRateWindow, rateWindow) ==
    [has_name |-> hasName, has_rate_limit |-> hasRateLimit, rate_limit |-> rateLimit,
     has_rate_window |-> hasRateWindow, rate_window |-> rateWindow]

\* Repository.UpdateTeam's UPDATE ... RETURNING: the row with the fields the
\* body names set to the body's values.
UpdatedTeamRow(team, patch) ==
    [team EXCEPT !.rate_limit = IF patch.has_rate_limit THEN patch.rate_limit ELSE @,
                 !.rate_window = IF patch.has_rate_window THEN patch.rate_window ELSE @]

NoFieldsToUpdate(patch) ==
    ~patch.has_name /\ ~patch.has_rate_limit /\ ~patch.has_rate_window

\* rateChanged: the body's limit or window differs from the team the handler
\* read before the update.
rateChanged(patch, currentTeam) ==
    \/ patch.has_rate_limit /\ patch.rate_limit # currentTeam.rate_limit
    \/ patch.has_rate_window /\ patch.rate_window # currentTeam.rate_window

\* UpdateTeam: "Handle rate limit changes for Kuadrant sync"
SyncUpdatedTeam(sync, patch, currentTeam, team) ==
    IF rateChanged(patch, currentTeam)
    THEN SyncedDocument(sync, AddTeamToTokenRateLimit(doc, team.ext_id, team.rate_limit,
                                                      team.rate_window))
    ELSE doc

UpdateTeam(subject, roles, teamRef, patch, sync) ==
    LET ep == "PATCH /teams/:team_id"
        caller == Caller(subject, roles)
        req == [team_id |-> teamRef, patch |-> patch, sync |-> sync]
        currentTeam == resolveTeamRef(teamRef)
        team == UpdatedTeamRow(currentTeam, patch)
    IN  /\ UserRoutesGate(subject, roles) = 0
        /\ UNCHANGED <<users, policies, memberships, models, grants, api_keys, inflight>>
        /\ IF IsNull(currentTeam)
           THEN Respond(ep, caller, req, 404, ErrorBody("Team not found"))
                /\ UNCHANGED <<teams, doc>>
           ELSE IF NoFieldsToUpdate(patch)
           THEN Respond(ep, caller, req, 500, ErrorBody("Failed to update team"))
                /\ UNCHANGED <<teams, doc>>
           ELSE /\ teams' = (teams \ {currentTeam}) \cup {team}
                /\ doc' = SyncUpdatedTeam(sync, patch, currentTeam, team)
                /\ Respond(ep, caller, req, SyncStatus(sync), TeamBody(team))

\* Repository.DeleteTeam: one transaction; the foreign keys of api_keys,
\* team_memberships and model_grants are ON DELETE CASCADE.
DeleteTeam(subject, roles, teamRef, sync) ==
    LET ep == "DELETE /teams/:team_id"
        caller == Caller(subject, roles)
        req == [team_id |-> teamRef, sync |-> sync]
        team == resolveTeamRef(teamRef)
    IN  /\ UserRoutesGate(subject, roles) = 0
        /\ UNCHANGED <<users, policies, models, inflight>>
        /\ IF IsNull(team)
           THEN /\ Respond(ep, caller, req, 404, ErrorBody("Team not found"))
                /\ UNCHANGED <<teams, memberships, grants, api_keys, doc>>
           ELSE /\ teams' = teams \ {team}
                /\ api_keys' = {k \in api_keys : k.team_id # team.id}
                /\ memberships' = {m \in memberships : m.team_id # team.id}
                /\ grants' = {g \in grants : g.team_id # team.id}
                /\ doc' = SyncDeletedTeam(sync, team)
                /\ Respond(ep, caller, req, SyncStatus(sync),
                           [team_id |-> team.id, ext_id |-> team.ext_id,
                            cascaded_key_count |-> Cardinality(ListTeamAPIKeys(team.id))])

(***************************************************************************)
(* Memberships: the three handlers answer without touching the store.      *)
(***************************************************************************)
AddTeamMember(subject, roles, teamRef, userID) ==
    /\ UserRoutesGate(subject, roles) = 0
    /\ IF userID = ""
       THEN Respond("POST /teams/:team_id/members", Caller(subject, roles),
                    [team_id |-> teamRef, user_id |-> userID], 400, ErrorBody("bad request body"))
       ELSE Respond("POST /teams/:team_id/members", Caller(subject, roles),
                    [team_id |-> teamRef, user_id |-> userID], 200,
                    [team_id |-> teamRef, user_id |-> userID, role |-> "member"])
    /\ UNCHANGED <<store, doc, inflight>>

RemoveTeamMember(subject, roles, teamRef, userID) ==
    /\ UserRoutesGate(subject, roles) = 0
    /\ Respond("DELETE /teams/:team_id/members/:user_id", Caller(subject, roles),
               [team_id |-> teamRef, user_id |-> userID], 200,
               [team_id |-> teamRef, user_id |-> userID])
    /\ UNCHANGED <<store, doc, inflight>>

ListTeamMembers(subject, roles, teamRef) ==
    /\ UserRoutesGate(subject, roles) = 0
    /\ Respond("GET /teams/:team_id/members", Caller(subject, roles), [team_id |-> teamRef],
               200, [team_id |-> teamRef, members |-> {"user-123", "user-456"}])
    /\ UNCHANGED <<store, doc, inflight>>

(***************************************************************************)
(* Credential mint: Manager.CreateTeamKey and Repository.CreateAPIKey      *)
(***************************************************************************)
\* Repository.CreateAPIKey's resolution of the user reference: the id when a
\* user row has it, else the user whose keycloak_user_id it is, else NULL.
ResolveKeyUser(userID) ==
    IF userID = "" THEN NULL
    ELSE IF IsUUID(userID) /\ ~IsNull(GetUserByID(userID)) THEN userID
    ELSE IF ~IsNull(FindUserByKeycloakID(userID)) THEN FindUserByKeycloakID(userID).id
    ELSE NULL

\* The api_keys row INSERTed by Repository.CreateAPIKey.  status and
\* expires_at take the column defaults ('active', NULL); plaintext records
\* the key handed to the caller and is no column of the table.
NewAPIKeyRow(gen, teamUUID, userID) ==
    [id |-> FreshUUID(KeyUUIDs, {k.id : k \in api_keys}),
     key_prefix |-> gen.keyPrefix,
     key_hash |-> gen.keyHash,
     team_id |-> teamUUID,
     user_id |-> ResolveKeyUser(userID),
     status |-> "active",
     expired |-> FALSE,
     plaintext |-> gen.apiKey]

\* Manager.CreateTeamKey: [ok, row]
ManagerCreateTeamKey(teamID, userID, drawn) ==
    LET gen == generateAPIKey(drawn)
    IN  IF ~IsUUID(teamID) \/ ~IsUUID(userID) THEN [ok |-> FALSE, row |-> NullRow]
        ELSE IF IsNull(GetTeamByID(teamID)) THEN [ok |-> FALSE, row |-> NullRow]
        ELSE IF ~IsNull(GetAPIKeyByPrefix(gen.keyPrefix)) THEN [ok |-> FALSE, row |-> NullRow]
        ELSE [ok |-> TRUE, row |-> NewAPIKeyRow(gen, teamID, userID)]

CanMint == Cardinality(api_keys) < MaxKeys

MintBody(row, teamID, userID) ==
    [id |-> row.id, api_key |-> row.plaintext, key_hash |-> row.key_hash,
     team_id |-> teamID, user_id |-> userID]

(***************************************************************************)
(* POST /teams/:team_id/keys, GET /teams/:team_id/keys,                    *)
(* DELETE /keys/:key_name  (KeysHandler)                                   *)
(***************************************************************************)
CreateTeamKey(subject, roles, teamRef, userID, drawn) ==
    LET ep == "POST /teams/:team_id/keys"
        caller == Caller(subject, roles)
        req == [team_id |-> teamRef, user_id |-> userID,
                drawn |-> generateAPIKey(drawn).keyPrefix]
        team == resolveTeamRef(teamRef)
        res == ManagerCreateTeamKey(team.id, userID, drawn)
    IN  /\ UserRoutesGate(subject, roles) = 0
        /\ UNCHANGED <<users, teams, policies, memberships, models, grants, doc, inflight>>
        /\ IF IsNull(team)
           THEN Respond(ep, caller, req, 404, ErrorBody("Team not found")) /\ UNCHANGED api_keys
           ELSE IF ~res.ok
           THEN Respond(ep, caller, req, 500, ErrorBody("Failed to create API key"))
                /\ UNCHANGED api_keys
           ELSE /\ CanMint
                /\ api_keys' = api_keys \cup {res.row}
                /\ Respond(ep, caller, req, 200, MintBody(res.row, team.id, userID))

\* decodeStoredKey applied to the key_hash as Scan returns it
decodeStoredKey(raw) ==
    IF raw = <<>> THEN <<>>
    ELSE IF HasPrefix(raw, <<Backslash, LowerX>>)
    THEN LET dec == HexDecodeString(SubSeq(raw, 3, Len(raw)))
         IN  IF ~dec.ok THEN raw ELSE TrimRightNUL(dec.bytes)
    ELSE raw

ListTeamKeys(subject, roles, teamRef, form) ==
    LET ep == "GET /teams/:team_id/keys"
        caller == Caller(subject, roles)
        req == [team_id |-> teamRef]
        team == resolveTeamRef(teamRef)
    IN  /\ UserRoutesGate(subject, roles) = 0
        /\ UNCHANGED <<store, doc, inflight>>
        /\ IF IsNull(team) THEN Respond(ep, caller, req, 404, ErrorBody("Team not found"))
           ELSE Respond(ep, caller, req, 200,
                        [team_id |-> team.id,
                         keys |-> {[id |-> k.id, key_prefix |-> k.key_prefix,
                                    key_hash |-> ScanBytea(k.key_hash, form)] :
                                     k \in ListTeamAPIKeys(team.id)}])

BadDeleteAPIKeyByPrefix(keyPrefix) ==
    {IF k.key_prefix = keyPrefix THEN [k EXCEPT !.status = "revoked"] ELSE k : k \in api_keys}

\* Repository.DeleteAPIKeyByPrefix: DELETE FROM api_keys WHERE key_prefix = $1
DeleteAPIKeyByPrefix(keyPrefix) == {k \in api_keys : k.key_prefix # keyPrefix}

DeleteAPIKey(subject, roles, keyPrefix) ==
    LET ep == "DELETE /keys/:key_name"
        caller == Caller(subject, roles)
        req == [key_name |-> keyPrefix]
        row == GetAPIKeyByPrefix(keyPrefix)
    IN  /\ UserRoutesGate(subject, roles) = 0
        /\ UNCHANGED <<users, teams, policies, memberships, models, grants, doc, inflight>>
        /\ IF IsNull(row)
           THEN Respond(ep, caller, req, 404, ErrorBody("API key not found"))
                /\ UNCHANGED api_keys
           ELSE /\ api_keys' = DeleteAPIKeyByPrefix(keyPrefix)
                /\ Respond(ep, caller, req, 200,
                           [key_id |-> row.id, key_prefix |-> row.key_prefix,
                            team_id |-> row.team_id])

(***************************************************************************)
(* POST /users/:user_id/keys  (KeysHandler.CreateUserKey)                  *)
(***************************************************************************)
IsAdmin(roles) == HasRole(roles, {"maas-admin"})

BadSelfOrAdmin(roles, requesterID, targetID) == TRUE

\* "user can only create keys for themselves, unless they are an admin"
SelfOrAdmin(roles, requesterID, targetID) ==
    IsAdmin(roles) \/ requesterID = targetID

\* the path parameter: "me" is the requester's own id
TargetUser(userRef, requester) == IF userRef = "me" THEN requester.id ELSE userRef

CreateUserKey(subject, roles, userRef, bodyOK, teamField, drawn) ==
    LET ep == "POST /users/:user_id/keys"
        caller == Caller(subject, roles)
        req == [user_id |-> userRef, team_id |-> teamField, body_ok |-> bodyOK,
                drawn |-> generateAPIKey(drawn).keyPrefix]
        requester == FindUserByKeycloakID(subject)
        target == TargetUser(userRef, requester)
        named == resolveTeamRef(teamField)
        mships == GetUserTeamMemberships(target)
        Fail(status, msg) == Respond(ep, caller, req, status, ErrorBody(msg)) /\ UNCHANGED api_keys
    IN  /\ UserRoutesGate(subject, roles) = 0
        /\ UNCHANGED <<users, teams, policies, memberships, models, grants, doc, inflight>>
        /\ IF IsNull(requester) THEN Fail(500, "could not identify requester")
           ELSE IF userRef # "me" /\ ~IsUUID(userRef) THEN Fail(400, "Invalid user ID format")
           ELSE IF ~SelfOrAdmin(roles, requester.id, target)
           THEN Fail(403, "You can only create API keys for yourself")
           ELSE IF ~bodyOK THEN Fail(400, "bad request body")
           ELSE IF teamField # "" /\ IsNull(named) THEN Fail(400, "Team not found")
           ELSE IF teamField = "" /\ mships = {}
           THEN Fail(500, "failed to find user's default team")
           ELSE \E teamID \in (IF teamField # "" THEN {named.id}
                                ELSE {m.team_id : m \in mships}) :
                  LET res == ManagerCreateTeamKey(teamID, target, drawn)
                  IN  IF ~res.ok THEN Fail(500, "Failed to create API key")
                      ELSE /\ CanMint
                           /\ api_keys' = api_keys \cup {res.row}
                           /\ Respond(ep, caller, req, 200, MintBody(res.row, teamID, target))

(***************************************************************************)
(* GET /users/:user_id/keys  (KeysHandler.ListUserKeys)                    *)
(***************************************************************************)
userKeyResponse(k, targetUser, form) ==
    [id |-> k.id, key_prefix |-> k.key_prefix,
     key |-> decodeStoredKey(ScanBytea(k.key_hash, form)),
     team_id |-> k.team_id, user_id |-> targetUser.id]

ListUserKeys(subject, roles, userRef, form) ==
    LET ep == "GET /users/:user_id/keys"
        caller == Caller(subject, roles)
        req == [user_id |-> userRef]
        requester == FindUserByKeycloakID(subject)
        target == TargetUser(userRef, requester)
        targetUser == GetUserByID(target)
    IN  /\ UserRoutesGate(subject, roles) = 0
        /\ UNCHANGED <<store, doc, inflight>>
        /\ IF IsNull(requester)
           THEN Respond(ep, caller, req, 500, ErrorBody("could not identify requester"))
           ELSE IF userRef # "me" /\ ~IsUUID(userRef)
           THEN Respond(ep, caller, req, 400, ErrorBody("Invalid user ID format"))
           ELSE IF IsNull(targetUser)
           THEN Respond(ep, caller, req, 500, ErrorBody("Failed to get user info"))
           ELSE Respond(ep, caller, req, 200,
                        [user_id |-> target,
                         keys |-> {userKeyResponse(k, targetUser, form) :
                                     k \in ListUserAPIKeys(target)}])

(***************************************************************************)
(* POST /teams/:team_id/grants  (TeamsHandler.CreateModelGrant and         *)
(* Repository.CreateModelGrant)                                            *)
(***************************************************************************)
ModelByName(name) == RowOrNull({m \in models : m.name = name})

\* idx_model_grants_unique compares COALESCE(user_id, zero-uuid), so two
\* tenant-wide grants of one model collide as well.
GrantExists(teamID, userID, modelID) ==
    \E g \in grants : g.team_id = teamID /\ g.user_id = userID /\ g.model_id = modelID

\* The model row is upserted by its own statement before the grant's INSERT.
CreateModelGrant(subject, roles, teamRef, userID, modelName) ==
    LET ep == "POST /teams/:team_id/grants"
        caller == Caller(subject, roles)
        req == [team_id |-> teamRef, user_id |-> userID, model_id |-> modelName]
        team == resolveTeamRef(teamRef)
        existing == ModelByName(modelName)
        model == IF ~IsNull(existing) THEN existing
                 ELSE [id |-> FreshUUID(ModelUUIDs, {m.id : m \in models}), name |-> modelName]
    IN  /\ UserRoutesGate(subject, roles) = 0
        /\ UNCHANGED <<users, teams, policies, memberships, api_keys, doc, inflight>>
        /\ IF IsNull(team)
           THEN Respond(ep, caller, req, 404, ErrorBody("Team not found"))
                /\ UNCHANGED <<models, grants>>
           ELSE /\ models' = models \cup {model}
                /\ IF GrantExists(team.id, userID, model.id)
                   THEN Respond(ep, caller, req, 409, ErrorBody("Model grant already exists"))
                        /\ UNCHANGED grants
                   ELSE IF userID # NULL /\ IsNull(GetUserByID(userID))
                   THEN Respond(ep, caller, req, 500, ErrorBody("Failed to create model grant"))
                        /\ UNCHANGED grants
                   ELSE /\ grants' = grants \cup
                              {[team_id |-> team.id, user_id |-> userID, model_id |-> model.id]}
                        /\ Respond(ep, caller, req, 200,
                                   [team_id |-> team.id, user_id |-> userID,
                                    model_id |-> model.id])

(***************************************************************************)
(* GET /usage (UsageHandler.GetNamespaceUsage) and GET /models: both read  *)
(* from the cluster, never from the store.                                 *)
(***************************************************************************)
UsageOutcomes == {200, 400, 502, 503}

GetNamespaceUsage(subject, roles, outcome) ==
    /\ UserRoutesGate(subject, roles) = 0
    /\ Respond("GET /usage", Caller(subject, roles), NoParams, outcome, ErrorBody(""))
    /\ UNCHANGED <<store, doc, inflight>>

ModelsOutcomes == {200, 500}

ListModels(subject, roles, outcome) ==
    /\ UserRoutesGate(subject, roles) = 0
    /\ Respond("GET /models", Caller(subject, roles), NoParams, outcome, ErrorBody(""))
    /\ UNCHANGED <<store, doc, inflight>>

(***************************************************************************)
(* key-manager: POST /policies and POST /teams with default_policy_id      *)
(***************************************************************************)
Operator == Caller("operator", <<"maas-admin">>)

CreatePolicy(name) ==
    LET ep == "POST /policies"
        req == [name |-> name]
        row == [id |-> FreshUUID(PolicyUUIDs, {p.id : p \in policies}), name |-> name]
    IN  /\ UNCHANGED <<users, teams, memberships, models, grants, api_keys, doc, inflight>>
        /\ IF \E p \in policies : p.name = name
           THEN Respond(ep, Operator, req, 500, ErrorBody("Failed to create policy"))
                /\ UNCHANGED policies
           ELSE /\ Cardinality(policies) < MaxPolicies
                /\ policies' = policies \cup {row}
                /\ Respond(ep, Operator, req, 201, [id |-> row.id])

\* TeamsHandler.CreateTeam of the key-manager tree (Repository.CreateTeamV2)
CreateTeamV2(extID, defaultPolicyID) ==
    LET ep == "POST /teams (key-manager)"
        req == [ext_id |-> extID, default_policy_id |-> defaultPolicyID]
        row == NewTeamRow(extID, 0, <<>>, defaultPolicyID)
    IN  /\ UNCHANGED <<users, policies, memberships, models, grants, api_keys, doc, inflight>>
        /\ IF ~IsNull(GetTeamByExtID(extID))
           THEN Respond(ep, Operator, req, 409, ErrorBody("Team external ID already exists"))
                /\ UNCHANGED teams
           ELSE IF defaultPolicyID # NULL /\ IsNull(GetPolicy(defaultPolicyID))
           THEN Respond(ep, Operator, req, 500, ErrorBody("Failed to create team"))
                /\ UNCHANGED teams
           ELSE /\ Cardinality(teams) < MaxTeams
                /\ teams' = teams \cup {row}
                /\ Respond(ep, Operator, req, 200, [id |-> row.id, ext_id |-> extID])

(***************************************************************************)
(* api_keys.status and api_keys.expires_at are columns of the schema that  *)
(* no handler writes: an operator's UPDATE revokes, suspends or expires a  *)
(* credential.                                                             *)
(***************************************************************************)
KeyStatuses == {"active", "revoked", "suspended"}

UpdateAPIKeyRow(k, status, expired) ==
    /\ k \in api_keys
    /\ k.status = "active" /\ ~k.expired
    /\ status # "active" \/ expired
    /\ api_keys' = (api_keys \ {k}) \cup {[k EXCEPT !.status = status, !.expired = expired]}
    /\ Respond("UPDATE api_keys", Operator, [id |-> k.id], 0, ErrorBody(""))
    /\ UNCHANGED <<users, teams, policies, memberships, models, grants, doc, inflight>>

(***************************************************************************)
(* POST /introspect  (IdentityHandler.Introspect)                          *)
(***************************************************************************)
\* Tokens a request may carry: every key of the key space, each key's bare
\* 8-character prefix, a key followed by a NUL byte, a 7-character token and
\* the empty token.
ShortToken == [i \in 1..(PrefixLen - 1) |-> 65]
RequestTokens ==
    KeySpace
    \cup {SubSeq(k, 1, PrefixLen) : k \in KeySpace}
    \cup {Append(MkKey(1, 1), NUL)}
    \cup {ShortToken, <<>>}

\* Body encodings: a JSON object, a form body, and a body url.ParseQuery rejects.
BodyForms == {"json", "form", "malformed"}
RunAsValues == UserUUIDs \cup {""}
IntrospectRequests ==
    [enc : {"json"}, token : RequestTokens, run_as_user_id : RunAsValues]
    \cup [enc : {"form"}, token : {<<>>, ShortToken, MkKey(1, 1)}, run_as_user_id : {""}]
    \cup [enc : {"malformed"}, token : {<<>>}, run_as_user_id : {""}]

\* Store calls of the handler that can fail with an I/O error.
StoreFaults == {"none", "GetAPIKeyByPrefix", "IsTeamMember", "GetTeam", "GetPolicy",
                "GetUserModelsAllowed"}

\* IntrospectResponse with its JSON keys; "" stands for a key omitempty drops.
IntrospectResponse(active, apiKeyID, teamID, userID, group, modelsAllowed, policyID, error) ==
    [active |-> active, api_key_id |-> apiKeyID, team_id |-> teamID, user_id |-> userID,
     group |-> group, models_allowed |-> modelsAllowed, policy_id |-> policyID,
     error |-> error]

Inactive(status, error) ==
    [status |-> status, body |-> IntrospectResponse(FALSE, "", "", "", <<>>, {}, "", error)]

\* The part of the handler after the key has been verified.
IntrospectVerified(req, apiKey, fault) ==
    LET serviceKey == apiKey.user_id = NULL \/ apiKey.user_id = ""
        effectiveUserID == IF serviceKey THEN req.run_as_user_id ELSE apiKey.user_id
        team == IF fault = "GetTeam" THEN NullRow ELSE GetTeam(apiKey.team_id)
        policy == IF fault = "GetPolicy" THEN NullRow ELSE GetPolicy(team.default_policy_id)
    IN  IF serviceKey /\ req.run_as_user_id = "" THEN Inactive(403, "run_as_required")
        ELSE IF serviceKey /\ (fault = "IsTeamMember"
                                \/ ~IsTeamMember(apiKey.team_id, req.run_as_user_id))
        THEN Inactive(403, "run_as_not_member")
        ELSE IF IsNull(team) THEN Inactive(401, "invalid_key")
        ELSE IF team.default_policy_id = NULL THEN Inactive(401, "invalid_key")
        ELSE IF IsNull(policy) THEN Inactive(401, "invalid_key")
        ELSE IF fault = "GetUserModelsAllowed" THEN Inactive(500, "internal_error")
        ELSE [status |-> 200,
              body |-> IntrospectResponse(TRUE, apiKey.id, apiKey.team_id, effectiveUserID,
                                          <<"plan:", policy.name>>,
                                          GetUserModelsAllowed(effectiveUserID, apiKey.team_id),
                                          policy.id, "")]

IntrospectResult(req, form, fault) ==
    LET apiKey == IF fault = "GetAPIKeyByPrefix" THEN NullRow
                  ELSE GetAPIKeyByPrefix(SubSeq(req.token, 1, PrefixLen))
    IN  IF req.enc = "malformed" THEN Inactive(400, "invalid_request")
        ELSE IF req.token = <<>> THEN Inactive(400, "invalid_request")
        ELSE IF Len(req.token) < PrefixLen THEN Inactive(401, "invalid_key")
        ELSE IF IsNull(apiKey) THEN Inactive(401, "invalid_key")
        ELSE IF ~verifyAPIKey(req.token, ScanBytea(apiKey.key_hash, form))
        THEN Inactive(401, "invalid_key")
        ELSE IntrospectVerified(req, apiKey, fault)

Introspect(req, form, fault) ==
    LET res == IntrospectResult(req, form, fault)
    IN  /\ Respond("POST /introspect", Anonymous, req, res.status, res.body)
        /\ UNCHANGED <<store, doc, inflight>>

(***************************************************************************)
(* Next-state relations.                                                   *)
(*                                                                         *)
(* Spec is the route table of maas-api: every route of userRoutes, called  *)
(* with and without a subject and with every role list.                    *)
(***************************************************************************)
FirstSubject == SubjectPool[1]
GateSubjects == {"", FirstSubject}
Draws == {MkKey(p, 1) : p \in 1..NumPrefixes}

Next ==
    \/ \E ep \in UserRoutes, s \in GateSubjects, r \in RoleLists : RefuseRequest(ep, s, r)
    \/ \E s \in GateSubjects, r \in RoleLists : Profile(s, r)
    \/ \E s \in GateSubjects, r \in RoleLists, e \in ExtIDs : CreateTeam(s, r, e, 0, <<>>, "ok")
    \/ \E s \in GateSubjects, r \in RoleLists : ListTeamsHandler(s, r)
    \/ \E s \in GateSubjects, r \in RoleLists, t \in ExtIDs : GetTeamHandler(s, r, t)
    \/ \E s \in GateSubjects, r \in RoleLists, t \in ExtIDs, h \in BOOLEAN :
         UpdateTeam(s, r, t, Patch(FALSE, h, 50, FALSE, <<>>), "ok")
    \/ \E s \in GateSubjects, r \in RoleLists, t \in ExtIDs : DeleteTeam(s, r, t, "ok")
    \/ \E s \in GateSubjects, r \in RoleLists, t \in ExtIDs, u \in {"", FirstSubject} :
         AddTeamMember(s, r, t, u)
    \/ \E s \in GateSubjects, r \in RoleLists, t \in ExtIDs, u \in UserUUIDs :
         RemoveTeamMember(s, r, t, u)
    \/ \E s \in GateSubjects, r \in RoleLists, t \in ExtIDs : ListTeamMembers(s, r, t)
    \/ \E s \in GateSubjects, r \in RoleLists, t \in ExtIDs, m \in ModelNames :
         CreateModelGrant(s, r, t, NULL, m)
    \/ \E s \in GateSubjects, r \in RoleLists, t \in ExtIDs, u \in UserUUIDs, k \in Draws :
         CreateTeamKey(s, r, t, u, k)
    \/ \E s \in GateSubjects, r \in RoleLists, t \in ExtIDs, f \in ByteaForms :
         ListTeamKeys(s, r, t, f)
    \/ \E s \in GateSubjects, r \in RoleLists, k \in Draws :
         DeleteAPIKey(s, r, SubSeq(k, 1, PrefixLen))
    \/ \E s \in GateSubjects, r \in RoleLists, k \in Draws :
         CreateUserKey(s, r, "me", TRUE, "", k)
    \/ \E s \in GateSubjects, r \in RoleLists, f \in ByteaForms : ListUserKeys(s, r, "me", f)
    \/ \E s \in GateSubjects, r \in RoleLists, o \in UsageOutcomes : GetNamespaceUsage(s, r, o)
    \/ \E s \in GateSubjects, r \in RoleLists, o \in ModelsOutcomes : ListModels(s, r, o)

Spec == Init /\ [][Next]_vars

(***************************************************************************)
(* SpecKeys: the self-service credential routes, called by every subject   *)
(* that passes the gate, for every user reference.                         *)
(***************************************************************************)
PassingRoles == {r \in RoleLists : UserContextMiddleware(r) = 0}

NextKeys ==
    \/ \E s \in Subjects : Profile(s, <<"maas-user">>)
    \/ \E e \in ExtIDs : CreateTeam(FirstSubject, <<"maas-admin">>, e, 0, <<>>, "ok")
    \/ \E s \in Subjects, r \in PassingRoles, u \in UserRefs, b \in BOOLEAN,
          t \in ExtIDs \cup {""}, k \in Draws :
         CreateUserKey(s, r, u, b, t, k)
    \/ \E s \in Subjects, r \in PassingRoles, u \in UserRefs, f \in ByteaForms :
         ListUserKeys(s, r, u, f)
    \/ \E k \in Draws : DeleteAPIKey(FirstSubject, <<"maas-admin">>, SubSeq(k, 1, PrefixLen))

SpecKeys == Init /\ [][NextKeys]_vars

(***************************************************************************)
(* SpecIntrospect: tenants with and without a policy, credentials minted   *)
(* for them, and the introspection of every token.                         *)
(***************************************************************************)
PlaintextRequests == [enc : {"json"}, token : KeySpace, run_as_user_id : RunAsValues]

\* Every request with a healthy store, and the requests that carry a whole
\* key with each store call failing.
IntrospectCalls ==
    (IntrospectRequests \X ByteaForms \X {"none"})
    \cup (PlaintextRequests \X {"raw"} \X (StoreFaults \ {"none"}))

NextIntrospect ==
    \/ \E n \in PolicyNames : CreatePolicy(n)
    \/ \E e \in ExtIDs, p \in PolicyUUIDs \cup {NULL} : CreateTeamV2(e, p)
    \/ \E s \in Subjects : Profile(s, <<"maas-user">>)
    \/ \E t \in TeamUUIDs, u \in UserUUIDs, k \in KeySpace :
         CreateTeamKey(FirstSubject, <<"maas-admin">>, t, u, k)
    \/ \E c \in IntrospectCalls : Introspect(c[1], c[2], c[3])

SpecIntrospect == Init /\ [][NextIntrospect]_vars

(***************************************************************************)
(* SpecStatus: credentials whose row an operator has revoked, suspended or *)
(* expired, introspected by their plaintext.                               *)
(***************************************************************************)
NextStatus ==
    \/ \E n \in PolicyNames : CreatePolicy(n)
    \/ \E e \in ExtIDs, p \in PolicyUUIDs : CreateTeamV2(e, p)
    \/ \E s \in Subjects : Profile(s, <<"maas-user">>)
    \/ \E t \in TeamUUIDs, u \in UserUUIDs, k \in Draws :
         CreateTeamKey(FirstSubject, <<"maas-admin">>, t, u, k)
    \/ \E k \in api_keys, st \in KeyStatuses, ex \in BOOLEAN : UpdateAPIKeyRow(k, st, ex)
    \/ \E q \in PlaintextRequests, f \in ByteaForms : Introspect(q, f, "none")

SpecStatus == Init /\ [][NextStatus]_vars

(***************************************************************************)
(* SpecGrants: model grants, tenant-wide and per user, and what            *)
(* introspection of a user's credential reports as models_allowed.         *)
(***************************************************************************)
NextGrants ==
    \/ \E n \in PolicyNames : CreatePolicy(n)
    \/ \E e \in ExtIDs, p \in PolicyUUIDs : CreateTeamV2(e, p)
    \/ \E s \in Subjects : Profile(s, <<"maas-user">>)
    \/ \E t \in TeamUUIDs, u \in UserUUIDs, k \in Draws :
         CreateTeamKey(FirstSubject, <<"maas-admin">>, t, u, k)
    \/ \E t \in TeamUUIDs, u \in UserUUIDs \cup {NULL}, m \in ModelNames :
         CreateModelGrant(FirstSubject, <<"maas-admin">>, t, u, m)
    \/ \E q \in PlaintextRequests, f \in ByteaForms : Introspect(q, f, "none")

SpecGrants == Init /\ [][NextGrants]_vars

(***************************************************************************)
(* SpecTenants: the tenant routes called one after the other by an         *)
(* administrator, with every rate limit and window a body may name, while  *)
(* the orchestrator answers or fails each call of PolicyManager.           *)
(***************************************************************************)
PatchLimits == {0, 20}
Patches ==
    {Patch(TRUE, FALSE, 0, FALSE, <<>>), Patch(FALSE, FALSE, 0, FALSE, <<>>),
     Patch(FALSE, TRUE, 20, TRUE, <<"5", "m">>)}
    \cup {Patch(FALSE, TRUE, l, FALSE, <<>>) : l \in PatchLimits}
    \cup {Patch(FALSE, FALSE, 0, TRUE, w) : w \in RateWindows}

NextTenants ==
    \/ \E e \in ExtIDs, l \in RateLimits, w \in RateWindows, j \in RateLimitSpecs,
          y \in SyncOutcomes :
         CreateTeamWithSpec(FirstSubject, <<"maas-admin">>, e, l, w, j, y)
    \/ \E t \in ExtIDs, f \in BOOLEAN : GetTeamQuery(FirstSubject, <<"maas-admin">>, t, f)
    \/ \E t \in ExtIDs, p \in Patches, y \in SyncOutcomes :
         UpdateTeam(FirstSubject, <<"maas-admin">>, t, p, y)
    \/ \E t \in ExtIDs, y \in SyncOutcomes : DeleteTeam(FirstSubject, <<"maas-admin">>, t, y)

SpecTenants == Init /\ [][NextTenants]_vars

(***************************************************************************)
(* The X-MaaS-User-Roles header.  A header value is a sequence of tokens:  *)
(* a role name, or one of the characters the parsers look at.              *)
(***************************************************************************)
\* strings.Split(s, ","): one item more than there are commas
RECURSIVE SplitAtComma(_)
SplitAtComma(s) ==
    IF \A i \in 1..Len(s) : s[i] # "," THEN <<s>>
    ELSE LET at == CHOOSE i \in 1..Len(s) : s[i] = "," /\ \A j \in 1..(i - 1) : s[j] # ","
         IN  <<SubSeq(s, 1, at - 1)>> \o SplitAtComma(SubSeq(s, at + 1, Len(s)))

\* strings.Trim(s, cutset); strings.TrimSpace is Trim with the blank
RECURSIVE Trim(_, _)
Trim(s, cutset) ==
    IF s # <<>> /\ s[1] \in cutset THEN Trim(Tail(s), cutset)
    ELSE IF s # <<>> /\ s[Len(s)] \in cutset THEN Trim(SubSeq(s, 1, Len(s) - 1), cutset)
    ELSE s

TrimSpace(s) == Trim(s, {" "})

\* The Go string a token sequence spells, as far as a comparison with a role
\* name can tell: the empty string, the single token, or a text that equals
\* no role name.
GoString(tokens) ==
    IF tokens = <<>> THEN ""
    ELSE IF Len(tokens) = 1 THEN tokens[1]
    ELSE "(no role name)"

IsBracketed(header) ==
    header # <<>> /\ header[1] = "[" /\ header[Len(header)] = "]"

\* json.Unmarshal([]byte(userRoles), &parsed) for a []string: [ok, roles]
UnmarshalStrings(header) ==
    LET inner == TrimSpace(SubSeq(header, 2, Len(header) - 1))
        items == [i \in 1..Len(SplitAtComma(inner)) |-> TrimSpace(SplitAtComma(inner)[i])]
        isString(t) == Len(t) = 3 /\ t[1] = "\"" /\ t[3] = "\"" /\ t[2] \in RoleNames
    IN  IF Len(header) < 2 THEN [ok |-> FALSE, roles |-> <<>>]
        ELSE IF inner = <<>> THEN [ok |-> TRUE, roles |-> <<>>]
        ELSE IF \A i \in 1..Len(items) : isString(items[i])
        THEN [ok |-> TRUE, roles |-> [i \in 1..Len(items) |-> items[i][2]]]
        ELSE [ok |-> FALSE, roles |-> <<>>]

\* The loop of maas-api's middleware over strings.Split: blanks and
\* surrounding quotes trimmed, empty items dropped.
SplitRoles(s) ==
    LET items == SplitAtComma(s)
        trimmed == [i \in 1..Len(items) |-> GoString(Trim(TrimSpace(items[i]), {"\""}))]
    IN  SelectSeq(trimmed, LAMBDA r : r # "")

\* maas-api: the roles JWTAuthMiddleware stores as user_roles
ParseRoles(userRoles) ==
    IF userRoles = <<>> THEN <<>>
    ELSE IF IsBracketed(userRoles)
    THEN IF UnmarshalStrings(userRoles).ok THEN UnmarshalStrings(userRoles).roles
         ELSE IF Trim(userRoles, {"[", "]"}) = <<>> THEN <<>>
         ELSE SplitRoles(Trim(userRoles, {"[", "]"}))
    ELSE SplitRoles(userRoles)

\* key-manager: the roles its JWTAuthMiddleware stores as user_roles.  The
\* bracketed form is split and blank-trimmed, the plain form is only split.
KeyManagerParseRoles(userRoles) ==
    LET rolesStr == Trim(userRoles, {"[", "]"})
    IN  IF userRoles = <<>> THEN <<>>
        ELSE IF IsBracketed(userRoles)
        THEN IF rolesStr = <<>> THEN <<>>
             ELSE [i \in 1..Len(SplitAtComma(rolesStr)) |->
                     GoString(TrimSpace(SplitAtComma(rolesStr)[i]))]
        ELSE [i \in 1..Len(SplitAtComma(userRoles)) |-> GoString(SplitAtComma(userRoles)[i])]

\* The encodings in which the PEP sends a list of roles.
RECURSIVE JoinRoles(_, _, _)
JoinRoles(roles, quote, sep) ==
    IF roles = <<>> THEN <<>>
    ELSE quote \o <<roles[1]>> \o quote
           \o (IF Len(roles) = 1 THEN <<>> ELSE sep \o JoinRoles(Tail(roles), quote, sep))

HeaderForms == {"json", "bracketed", "plain"}

EncodeRoles(roles, form, spaced) ==
    LET sep == IF spaced THEN <<",", " ">> ELSE <<",">>
    IN  IF form = "json" THEN <<"[">> \o JoinRoles(roles, <<"\"">>, sep) \o <<"]">>
        ELSE IF form = "bracketed" THEN <<"[">> \o JoinRoles(roles, <<>>, sep) \o <<"]">>
        ELSE JoinRoles(roles, <<>>, sep)

HeaderRoleLists == RoleLists \cup {<<a, b>> : a, b \in RoleNames}
RoleGates == {"user", "admin"}

RoleGate(gate, roles) ==
    IF gate = "admin" THEN AdminRequiredMiddleware(roles) ELSE UserContextMiddleware(roles)

\* The middleware chain of a route, run on the header as the PEP sends it:
\* the status it aborts with, or 0 when it hands the request on (c.Next).
AuthChain(parser, gate, subject, roles, form, spaced) ==
    LET userRoles == EncodeRoles(roles, form, spaced)
        parsed == IF parser = "maas-api" THEN ParseRoles(userRoles)
                  ELSE KeyManagerParseRoles(userRoles)
        status == IF JWTAuthMiddleware(subject) # 0 THEN JWTAuthMiddleware(subject)
                  ELSE RoleGate(gate, parsed)
        req == [parser |-> parser, gate |-> gate, roles |-> roles, form |-> form,
                spaced |-> spaced]
    IN  /\ Respond("auth chain", Caller(subject, parsed), req, status,
                   IF status = 0 THEN ErrorBody("") ELSE ErrorBody("refused"))
        /\ UNCHANGED <<store, doc, inflight>>

JWTAuthChain(gate, subject, roles, form, spaced) ==
    AuthChain("maas-api", gate, subject, roles, form, spaced)

KeyManagerJWTAuthChain(gate, subject, roles, form, spaced) ==
    AuthChain("key-manager", gate, subject, roles, form, spaced)

NextRoles ==
    \/ \E g \in RoleGates, s \in GateSubjects, r \in HeaderRoleLists, f \in HeaderForms,
          b \in BOOLEAN : JWTAuthChain(g, s, r, f, b)
    \/ \E g \in RoleGates, s \in GateSubjects, r \in HeaderRoleLists, f \in HeaderForms,
          b \in BOOLEAN : KeyManagerJWTAuthChain(g, s, r, f, b)

SpecRoles == Init /\ [][NextRoles]_vars

(***************************************************************************)
(* Credentials that introspect as active (a tenant with a default policy,  *)
(* a user key), their removal by DELETE /keys/{prefix} and by              *)
(* DELETE /teams/{ref}, and the introspection of every plaintext.          *)
(***************************************************************************)
NextRevoke ==
    \/ \E n \in PolicyNames : CreatePolicy(n)
    \/ \E e \in ExtIDs, p \in PolicyUUIDs : CreateTeamV2(e, p)
    \/ \E s \in Subjects : Profile(s, <<"maas-user">>)
    \/ \E t \in TeamUUIDs, u \in UserUUIDs, k \in KeySpace :
         CreateTeamKey(FirstSubject, <<"maas-admin">>, t, u, k)
    \/ \E k \in Draws : DeleteAPIKey(FirstSubject, <<"maas-admin">>, SubSeq(k, 1, PrefixLen))
    \/ \E t \in TeamRefs, y \in SyncOutcomes : DeleteTeam(FirstSubject, <<"maas-admin">>, t, y)
    \/ \E q \in PlaintextRequests, f \in ByteaForms : Introspect(q, f, "none")

SpecRevoke == Init /\ [][NextRevoke]_vars

(***************************************************************************)
(* The mint of a tenant key with every kind of user reference: a user id,  *)
(* an external identifier that is not UUID-formatted, and one that is.     *)
(***************************************************************************)
MintSubjects == {FirstSubject, UUIDSubject}
MintRefs == UserUUIDs \cup MintSubjects

NextMint ==
    \/ \E s \in MintSubjects : Profile(s, <<"maas-user">>)
    \/ \E e \in ExtIDs : CreateTeam(FirstSubject, <<"maas-admin">>, e, 0, <<>>, "ok")
    \/ \E t \in TeamRefs, u \in MintRefs, k \in Draws :
         CreateTeamKey(FirstSubject, <<"maas-admin">>, t, u, k)
    \/ \E k \in Draws : DeleteAPIKey(FirstSubject, <<"maas-admin">>, SubSeq(k, 1, PrefixLen))

SpecMint == Init /\ [][NextMint]_vars

(***************************************************************************)
(* Properties of POST /introspect                                          *)
(***************************************************************************)
IsIntrospection == resp.ep = "POST /introspect"

\* The request of resp carried a token: its body parsed and named one.
CarriesToken == IsIntrospection /\ resp.req.enc # "malformed" /\ resp.req.token # <<>>

\* The answer of the handler to the request of resp when no store call fails.
HealthyAnswer == IntrospectResult(resp.req, "raw", "none")

\* C1: for every credential C that was minted and is still stored, the
\* introspection of C's exact plaintext answers active=true, and the team_id
\* of the answer is the ext_id of the tenant that owns C.
C1_PlaintextActiveWithExtID ==
    \A k \in api_keys :
        (IsIntrospection /\ resp.req.enc # "malformed" /\ resp.req.token = k.plaintext)
        => /\ HealthyAnswer.body.active
           /\ HealthyAnswer.body.team_id = GetTeamByID(k.team_id).ext_id

\* C1, the diverging state: an active answer for a stored credential whose
\* team_id is the tenant's internal id and not its ext_id.
C1_ActiveWithInternalTeamID ==
    /\ IsIntrospection /\ resp.status = 200 /\ resp.body.active
    /\ \E k \in api_keys :
          /\ resp.req.token = k.plaintext
          /\ resp.body.team_id = k.team_id
          /\ resp.body.team_id # GetTeamByID(k.team_id).ext_id

\* C2: every introspection request that carries a token and does not
\* resolve to a valid credential is answered with HTTP 200 and active=false,
\* never with a 4xx or 5xx status.
C2_UnresolvedTokenAnswers200 ==
    (CarriesToken /\ ~resp.body.active) => resp.status = 200

\* C2, the diverging state: a 7-character token answered with 401.
C2_ShortTokenAnswers401 ==
    IsIntrospection /\ resp.req.enc = "json" /\ resp.req.token = ShortToken
    /\ resp.status = 401 /\ ~resp.body.active

\* C3: a token that differs from the plaintext of a stored credential in at
\* least one byte never introspects as that credential: an active answer
\* names a stored credential whose plaintext is the token, so the bare
\* 8-character prefix and a token with the same prefix and another
\* remainder are answered active=false.
C3_WrongTokenInactive ==
    (IsIntrospection /\ resp.body.active)
    => \E k \in api_keys : k.id = resp.body.api_key_id /\ k.plaintext = resp.req.token

\* C3, its case: a credential is stored and the token shares its prefix but
\* not its remainder; the answer is active=false.
C3_SamePrefixOtherRemainder ==
    /\ IsIntrospection /\ ~resp.body.active
    /\ \E k \in api_keys :
          /\ HasPrefix(resp.req.token, k.key_prefix)
          /\ Len(resp.req.token) = Len(k.plaintext)
          /\ resp.req.token # k.plaintext

\* C5: the introspection response, status and body, is the same for every
\* cause of a negative result: whatever negative answer was given, every
\* other request answered negatively in the same store gets the same one.
C5_NegativeAnswersIdentical ==
    (IsIntrospection /\ ~resp.body.active)
    => \A q \in IntrospectRequests :
          LET other == IntrospectResult(q, "raw", "none")
          IN  ~other.body.active
              => (other.status = resp.status /\ other.body = resp.body)

\* C5, the diverging state: an empty token was answered 400 invalid_request
\* where a short token is answered 401 invalid_key.
C5_EmptyAndShortDiffer ==
    /\ IsIntrospection /\ resp.req.enc = "json" /\ resp.req.token = <<>>
    /\ resp.status = 400 /\ resp.body.error = "invalid_request"
    /\ IntrospectResult([enc |-> "json", token |-> ShortToken, run_as_user_id |-> ""],
                        "raw", "none").status = 401

\* A JSON string value cut at its commas; a text is a sequence of pieces
\* and "," is the piece that separates.
RECURSIVE SplitComma(_)
SplitComma(text) ==
    IF \A i \in 1..Len(text) : text[i] # "," THEN <<text>>
    ELSE LET at == CHOOSE i \in 1..Len(text) :
                     text[i] = "," /\ \A j \in 1..(i - 1) : text[j] # ","
         IN  <<SubSeq(text, 1, at - 1)>> \o SplitComma(SubSeq(text, at + 1, Len(text)))

\* The value of a key of a JSON body, the empty text when the key is absent.
JSONText(body, key) == IF key \in DOMAIN body THEN body[key] ELSE <<>>

Occurrences(elems, e) == Cardinality({i \in 1..Len(elems) : elems[i] = e})

\* C7: after a tenant is created and a credential minted for it, the
\* introspection of that credential returns a groups string that, split on
\* ',', contains the tenant's ext_id as an element exactly once.
C7_GroupsHoldExtIDOnce ==
    \A k \in api_keys :
        (IsIntrospection /\ resp.body.active /\ resp.req.token = k.plaintext)
        => Occurrences(SplitComma(JSONText(resp.body, "groups")),
                       <<GetTeamByID(k.team_id).ext_id>>) = 1

\* C7, the diverging state: the active answer has no groups key, and its
\* group key holds the plan of the tenant's policy, not the ext_id.
C7_ActiveAnswerWithoutGroups ==
    /\ IsIntrospection /\ resp.body.active
    /\ "groups" \notin DOMAIN resp.body
    /\ \E k \in api_keys, p \in policies :
          /\ resp.req.token = k.plaintext
          /\ resp.body.group = <<"plan:", p.name>>
          /\ Occurrences(SplitComma(resp.body.group), <<GetTeamByID(k.team_id).ext_id>>) = 0

\* The stored credential an active answer names.
AnsweredKey == CHOOSE k \in api_keys : k.id = resp.body.api_key_id

\* C4: the introspection of a credential's correct plaintext answers
\* active=false when the credential is revoked or suspended or its
\* expires_at lies in the past; active=true is only ever answered for a
\* credential whose status is active and which has not expired.
C4_ActiveOnlyForUsableCredential ==
    (IsIntrospection /\ resp.body.active)
    => (AnsweredKey.status = "active" /\ ~AnsweredKey.expired)

\* C4, the diverging state: the plaintext of a credential that is not
\* usable (revoked, suspended or expired) is answered active=true.
C4_UnusableCredentialActive ==
    /\ IsIntrospection /\ resp.body.active
    /\ resp.req.token = AnsweredKey.plaintext
    /\ (AnsweredKey.status \in {"revoked", "suspended"} \/ AnsweredKey.expired)

\* The models tenant teamID has granted tenant-wide or to user userID.
GrantedModels(teamID, userID) ==
    {ModelNameOf(g.model_id) :
        g \in {x \in grants : x.team_id = teamID /\ (x.user_id = NULL \/ x.user_id = userID)}}

\* C6: for a credential of user U in tenant T, models_allowed holds a model
\* exactly when T has a grant of it that is tenant-wide or made to U; a
\* grant of T made to another user V adds nothing to U's list.
C6_ModelsAllowedAreGranted ==
    (IsIntrospection /\ resp.body.active /\ AnsweredKey.user_id # NULL)
    => resp.body.models_allowed = GrantedModels(AnsweredKey.team_id, AnsweredKey.user_id)

\* C6, the diverging state: U's credential is answered with a model whose
\* only grant in the tenant was made to another user.
C6_OtherUsersGrantListed ==
    /\ IsIntrospection /\ resp.body.active /\ AnsweredKey.user_id # NULL
    /\ \E g \in grants :
          /\ g.team_id = AnsweredKey.team_id
          /\ g.user_id \notin {NULL, AnsweredKey.user_id}
          /\ ModelNameOf(g.model_id) \in resp.body.models_allowed
          /\ ModelNameOf(g.model_id)
                \notin GrantedModels(AnsweredKey.team_id, AnsweredKey.user_id)

(***************************************************************************)
(* Properties of the self-service credential routes                        *)
(***************************************************************************)
UserIDs == {u.id : u \in users}

\* The request of resp names, in its path, a user other than its caller.
NamesOtherUser ==
    /\ resp.req.user_id \in UserIDs
    /\ resp.req.user_id # FindUserByKeycloakID(resp.caller.subject).id

C9_ListsOwnKeysOnly ==
    (resp.ep = "GET /users/:user_id/keys" /\ ~IsNull(FindUserByKeycloakID(resp.caller.subject)))
    => /\ resp.req.user_id = "me"
          => /\ resp.status = 200
             /\ {x.id : x \in resp.body.keys}
                  = {k.id : k \in ListUserAPIKeys(FindUserByKeycloakID(resp.caller.subject).id)}
       /\ (~IsAdmin(resp.caller.roles) /\ NamesOtherUser) => resp.status = 403

\* C9, the diverging state: a caller without maas-admin is answered 200 with
\* the plaintext of a credential of another user.
C9_OtherUsersKeyDisclosed ==
    /\ resp.ep = "GET /users/:user_id/keys" /\ resp.status = 200
    /\ ~IsAdmin(resp.caller.roles) /\ NamesOtherUser
    /\ \E k \in api_keys, x \in resp.body.keys :
          k.user_id = resp.req.user_id /\ x.id = k.id /\ x.key = k.plaintext

(***************************************************************************)
(* Properties of the role gate                                             *)
(***************************************************************************)
Roleless(roles) == ~HasRole(roles, {"maas-user", "maas-admin"})

NoPatch == Patch(FALSE, FALSE, 0, FALSE, <<>>)

NewRequest(op, caller, ref) ==
    [rid |-> CHOOSE i \in 1..MaxInflight : \A r \in inflight : r.rid # i,
     op |-> op, pc |-> "resolved", caller |-> caller, ref |-> ref,
     team_id |-> "", user_id |-> "", drawn |-> <<>>, key_count |-> 0,
     patch |-> NoPatch, rate_limit |-> 0, rate_window |-> <<>>, seen |-> NoDocument]

CanAccept == Cardinality(inflight) < MaxInflight
Step(r, to) == inflight' = (inflight \ {r}) \cup {to}
Finish(r) == inflight' = inflight \ {r}

(***************************************************************************)
(* DELETE /teams/:team_id statement by statement, with concurrent          *)
(* credential mints and deletions.  PostgreSQL, READ COMMITTED.            *)
(***************************************************************************)
\* SELECT ... FOR UPDATE holds the row lock of the teams row until the
\* transaction commits.
TeamRowLocked(teamID) ==
    \E r \in inflight :
        r.op = "DeleteTeam" /\ r.pc \in {"locked", "counted"} /\ r.team_id = teamID

\* api_keys.team_id REFERENCES teams(id): the INSERT's check of the key
\* reads the teams row.
BadForeignKeyHolds(teamID) == TRUE

ForeignKeyHolds(teamID) == ~IsNull(GetTeamByID(teamID))

\* TeamsHandler.DeleteTeam up to h.repo.DeleteTeam: resolveTeamRef.
DeleteTeamResolve(subject, roles, teamRef) ==
    LET caller == Caller(subject, roles)
        team == resolveTeamRef(teamRef)
    IN  /\ UserRoutesGate(subject, roles) = 0
        /\ UNCHANGED <<store, doc>>
        /\ IF IsNull(team)
           THEN /\ Respond("DELETE /teams/:team_id", caller, [team_id |-> teamRef, sync |-> "ok"],
                           404, ErrorBody("Team not found"))
                /\ UNCHANGED inflight
           ELSE /\ CanAccept
                /\ inflight' = inflight \cup
                     {[NewRequest("DeleteTeam", caller, teamRef) EXCEPT !.team_id = team.id]}
                /\ UNCHANGED resp

\* BeginTx; SELECT ... FROM teams WHERE id = $1 FOR UPDATE.  The statement
\* waits while another transaction holds the row lock.
DeleteTeamLock(r) ==
    /\ r.op = "DeleteTeam" /\ r.pc = "resolved"
    /\ ~TeamRowLocked(r.team_id)
    /\ UNCHANGED <<store, doc>>
    /\ IF IsNull(GetTeamByID(r.team_id))
       THEN /\ Respond("DELETE /teams/:team_id", r.caller, [team_id |-> r.ref, sync |-> "ok"],
                       404, ErrorBody("Team not found"))
            /\ Finish(r)
       ELSE /\ Step(r, [r EXCEPT !.pc = "locked"])
            /\ UNCHANGED resp

\* SELECT COUNT(*) FROM api_keys WHERE team_id = $1
DeleteTeamCount(r) ==
    /\ r.op = "DeleteTeam" /\ r.pc = "locked"
    /\ Step(r, [r EXCEPT !.pc = "counted",
                         !.key_count = Cardinality(ListTeamAPIKeys(r.team_id))])
    /\ UNCHANGED <<store, doc, resp>>

\* DELETE FROM teams WHERE id = $1 RETURNING ext_id, name (the foreign keys
\* cascade); Commit; RemoveTeamFromTokenRateLimit; the response.
DeleteTeamCommit(r, sync) ==
    LET team == GetTeamByID(r.team_id)
    IN  /\ r.op = "DeleteTeam" /\ r.pc = "counted"
        /\ teams' = teams \ {team}
        /\ api_keys' = {k \in api_keys : k.team_id # team.id}
        /\ memberships' = {m \in memberships : m.team_id # team.id}
        /\ grants' = {g \in grants : g.team_id # team.id}
        /\ UNCHANGED <<users, policies, models>>
        /\ doc' = SyncDeletedTeam(sync, team)
        /\ Respond("DELETE /teams/:team_id", r.caller, [team_id |-> r.ref, sync |-> sync],
                   SyncStatus(sync),
                   [team_id |-> team.id, ext_id |-> team.ext_id,
                    cascaded_key_count |-> r.key_count])
        /\ Finish(r)

\* KeysHandler.CreateTeamKey and Manager.CreateTeamKey up to
\* m.repo.CreateAPIKey: the team is resolved and read, the key is drawn.
CreateTeamKeyResolve(subject, roles, teamRef, userID, drawn) ==
    LET ep == "POST /teams/:team_id/keys"
        caller == Caller(subject, roles)
        req == [team_id |-> teamRef, user_id |-> userID,
                drawn |-> generateAPIKey(drawn).keyPrefix]
        team == resolveTeamRef(teamRef)
    IN  /\ UserRoutesGate(subject, roles) = 0
        /\ UNCHANGED <<store, doc>>
        /\ IF IsNull(team)
           THEN Respond(ep, caller, req, 404, ErrorBody("Team not found")) /\ UNCHANGED inflight
           ELSE IF ~IsUUID(userID)
           THEN Respond(ep, caller, req, 500, ErrorBody("Failed to create API key"))
                /\ UNCHANGED inflight
           ELSE /\ CanAccept
                /\ Cardinality(api_keys)
                     + Cardinality({r \in inflight : r.op = "CreateTeamKey"}) < MaxKeys
                /\ inflight' = inflight \cup
                     {[NewRequest("CreateTeamKey", caller, teamRef) EXCEPT
                          !.team_id = team.id, !.user_id = userID, !.drawn = drawn]}
                /\ UNCHANGED resp

\* Repository.CreateAPIKey: INSERT INTO api_keys.  The check of the foreign
\* key takes a key-share lock on the teams row: it waits while the row is
\* locked for update, and fails when the row is gone.
CreateTeamKeyInsert(r) ==
    LET ep == "POST /teams/:team_id/keys"
        gen == generateAPIKey(r.drawn)
        req == [team_id |-> r.ref, user_id |-> r.user_id, drawn |-> gen.keyPrefix]
        row == NewAPIKeyRow(gen, r.team_id, r.user_id)
    IN  /\ r.op = "CreateTeamKey" /\ r.pc = "resolved"
        /\ ~TeamRowLocked(r.team_id)
        /\ UNCHANGED <<users, teams, policies, memberships, models, grants, doc>>
        /\ Finish(r)
        /\ IF ForeignKeyHolds(r.team_id) /\ IsNull(GetAPIKeyByPrefix(gen.keyPrefix))
           THEN /\ api_keys' = api_keys \cup {row}
                /\ Respond(ep, r.caller, req, 200, MintBody(row, r.team_id, r.user_id))
           ELSE /\ UNCHANGED api_keys
                /\ Respond(ep, r.caller, req, 500, ErrorBody("Failed to create API key"))

NextCascade ==
    \/ \E e \in ExtIDs : CreateTeam(FirstSubject, <<"maas-admin">>, e, 0, <<>>, "ok")
    \/ \E t \in ExtIDs : DeleteTeamResolve(FirstSubject, <<"maas-admin">>, t)
    \/ \E r \in inflight : DeleteTeamLock(r)
    \/ \E r \in inflight : DeleteTeamCount(r)
    \/ \E r \in inflight, y \in SyncOutcomes : DeleteTeamCommit(r, y)
    \/ \E t \in ExtIDs, k \in Draws :
         CreateTeamKeyResolve(FirstSubject, <<"maas-admin">>, t, UserUUIDPool[1], k)
    \/ \E r \in inflight : CreateTeamKeyInsert(r)
    \/ \E k \in Draws : DeleteAPIKey(FirstSubject, <<"maas-admin">>, SubSeq(k, 1, PrefixLen))

SpecCascade == Init /\ [][NextCascade]_vars

(***************************************************************************)
(* PATCH /teams/:team_id statement by statement: the handler reads the     *)
(* tenant, then Repository.UpdateTeam makes its UPDATE, then the handler   *)
(* compares the request with the tenant it read.                           *)
(***************************************************************************)
\* TeamsHandler.UpdateTeam up to h.repo.UpdateTeam: currentTeam is read.
UpdateTeamResolve(subject, roles, teamRef, patch) ==
    LET caller == Caller(subject, roles)
        currentTeam == resolveTeamRef(teamRef)
    IN  /\ UserRoutesGate(subject, roles) = 0
        /\ UNCHANGED <<store, doc>>
        /\ IF IsNull(currentTeam)
           THEN /\ Respond("PATCH /teams/:team_id", caller,
                           [team_id |-> teamRef, patch |-> patch, sync |-> "ok"],
                           404, ErrorBody("Team not found"))
                /\ UNCHANGED inflight
           ELSE /\ CanAccept
                /\ inflight' = inflight \cup
                     {[NewRequest("UpdateTeam", caller, teamRef) EXCEPT
                          !.team_id = currentTeam.id, !.patch = patch,
                          !.rate_limit = currentTeam.rate_limit,
                          !.rate_window = currentTeam.rate_window]}
                /\ UNCHANGED resp

\* Repository.UpdateTeam (UPDATE teams SET ... WHERE id = $n RETURNING ...),
\* then rateChanged against the tenant read before, the sync and the
\* response.
UpdateTeamWrite(r, sync) ==
    LET ep == "PATCH /teams/:team_id"
        req == [team_id |-> r.ref, patch |-> r.patch, sync |-> sync]
        stored == GetTeamByID(r.team_id)
        team == UpdatedTeamRow(stored, r.patch)
    IN  /\ r.op = "UpdateTeam" /\ r.pc = "resolved"
        /\ UNCHANGED <<users, policies, memberships, models, grants, api_keys>>
        /\ Finish(r)
        /\ IF NoFieldsToUpdate(r.patch)
           THEN Respond(ep, r.caller, req, 500, ErrorBody("Failed to update team"))
                /\ UNCHANGED <<teams, doc>>
           ELSE IF IsNull(stored)
           THEN Respond(ep, r.caller, req, 404, ErrorBody("Team not found"))
                /\ UNCHANGED <<teams, doc>>
           ELSE /\ teams' = (teams \ {stored}) \cup {team}
                /\ doc' = SyncUpdatedTeam(sync, r.patch, r, team)
                /\ Respond(ep, r.caller, req, SyncStatus(sync), TeamBody(team))

LimitPatches == {Patch(FALSE, TRUE, l, FALSE, <<>>) : l \in {20, 50}}

\* The orchestrator is reachable: every call of PolicyManager succeeds.
NextPatch ==
    \/ \E e \in ExtIDs : CreateTeam(FirstSubject, <<"maas-admin">>, e, 0, <<>>, "ok")
    \/ \E t \in ExtIDs, p \in LimitPatches \cup {NoPatch} :
         UpdateTeamResolve(FirstSubject, <<"maas-admin">>, t, p)
    \/ \E r \in inflight : UpdateTeamWrite(r, "ok")
    \/ \E t \in ExtIDs : DeleteTeam(FirstSubject, <<"maas-admin">>, t, "ok")

SpecPatch == Init /\ [][NextPatch]_vars

(***************************************************************************)
(* The calls of PolicyManager step by step.  The handlers run on their own *)
(* goroutines and hold no lock around the call; the document is one        *)
(* resource of the orchestrator, rewritten by read-modify-write under its  *)
(* resource version.                                                       *)
(***************************************************************************)
\* TeamsHandler.CreateTeam up to the call of PolicyManager.
CreateTeamInsert(subject, roles, extID, rateLimit, rateWindow) ==
    LET caller == Caller(subject, roles)
        row == CreatedTeamRow(extID, rateLimit, rateWindow, <<>>)
    IN  /\ UserRoutesGate(subject, roles) = 0
        /\ UNCHANGED <<users, policies, memberships, models, grants, api_keys, doc>>
        /\ IF ~IsNull(GetTeamByExtID(extID))
           THEN /\ Respond("POST /teams", caller,
                           [ext_id |-> extID, rate_limit |-> rateLimit,
                            rate_window |-> rateWindow, sync |-> "ok"],
                           409, ErrorBody("Team external ID already exists"))
                /\ UNCHANGED <<teams, inflight>>
           ELSE /\ Cardinality(teams) < MaxTeams
                /\ CanAccept
                /\ teams' = teams \cup {row}
                /\ inflight' = inflight \cup
                     {[NewRequest("CreateTeam", caller, extID) EXCEPT
                          !.pc = "committed", !.team_id = row.id,
                          !.rate_limit = row.rate_limit, !.rate_window = row.rate_window]}
                /\ UNCHANGED resp

\* TeamsHandler.DeleteTeam up to the call of PolicyManager.
DeleteTeamDelete(subject, roles, teamRef) ==
    LET caller == Caller(subject, roles)
        team == resolveTeamRef(teamRef)
    IN  /\ UserRoutesGate(subject, roles) = 0
        /\ UNCHANGED <<users, policies, models, doc>>
        /\ IF IsNull(team)
           THEN /\ Respond("DELETE /teams/:team_id", caller,
                           [team_id |-> teamRef, sync |-> "ok"],
                           404, ErrorBody("Team not found"))
                /\ UNCHANGED <<teams, memberships, grants, api_keys, inflight>>
           ELSE /\ CanAccept
                /\ teams' = teams \ {team}
                /\ api_keys' = {k \in api_keys : k.team_id # team.id}
                /\ memberships' = {m \in memberships : m.team_id # team.id}
                /\ grants' = {g \in grants : g.team_id # team.id}
                /\ inflight' = inflight \cup
                     {[NewRequest("DeleteTeam", caller, team.ext_id) EXCEPT
                          !.pc = "committed", !.team_id = team.id,
                          !.key_count = Cardinality(ListTeamAPIKeys(team.id))]}
                /\ UNCHANGED resp

\* The document as the request's call of PolicyManager rewrites it.
Rewritten(r) ==
    IF r.op = "CreateTeam"
    THEN AddTeamToTokenRateLimit(r.seen, r.ref, r.rate_limit, r.rate_window)
    ELSE RemoveTeamFromTokenRateLimit(r.seen, r.ref)

\* The orchestrator refuses an update that carries another resource
\* version than the stored document's.
BadConflict(r) == FALSE

Conflict(r) == doc # r.seen

\* PolicyManager: Get of the TokenRateLimitPolicy.
ReadDocument(r) ==
    /\ r.op \in {"CreateTeam", "DeleteTeam"} /\ r.pc = "committed"
    /\ Step(r, [r EXCEPT !.pc = "read", !.seen = doc])
    /\ UNCHANGED <<store, doc, resp>>

\* The response of the handler once the call of PolicyManager has returned.
Answer(r, sync) ==
    IF r.op = "CreateTeam"
    THEN Respond("POST /teams", r.caller,
                 [ext_id |-> r.ref, rate_limit |-> r.rate_limit,
                  rate_window |-> r.rate_window, sync |-> sync],
                 SyncStatus(sync),
                 [id |-> r.team_id, ext_id |-> r.ref, rate_limit |-> r.rate_limit,
                  rate_window |-> r.rate_window])
    ELSE Respond("DELETE /teams/:team_id", r.caller, [team_id |-> r.ref, sync |-> sync],
                 SyncStatus(sync),
                 [team_id |-> r.team_id, ext_id |-> r.ref,
                  cascaded_key_count |-> r.key_count])

\* PolicyManager: Update of the TokenRateLimitPolicy, retried from the Get
\* on a conflict; then the handler's response.  A failed call is logged and
\* the response is the same.
WriteDocument(r, sync) ==
    /\ r.op \in {"CreateTeam", "DeleteTeam"} /\ r.pc = "read"
    /\ UNCHANGED store
    /\ IF sync = "failed"
       THEN UNCHANGED doc /\ Answer(r, sync) /\ Finish(r)
       ELSE IF Conflict(r)
       THEN UNCHANGED <<doc, resp>> /\ Step(r, [r EXCEPT !.pc = "committed"])
       ELSE doc' = Rewritten(r) /\ Answer(r, sync) /\ Finish(r)

\* The ext_ids of the tenants created one after another.
SuccessiveExtIDs == Pick(ExtIDPool, MaxTeams + 1)

\* The calls of PolicyManager may fail.  A handler that has committed its
\* write goes on to call PolicyManager and to answer: gin runs every
\* request on a goroutine of its own and the Go scheduler lets each run.
NextConverge ==
    \/ \E e \in SuccessiveExtIDs : CreateTeamInsert(FirstSubject, <<"maas-admin">>, e, 0, <<>>)
    \/ \E t \in SuccessiveExtIDs : DeleteTeamDelete(FirstSubject, <<"maas-admin">>, t)
    \/ \E r \in inflight : ReadDocument(r)
    \/ \E r \in inflight, y \in SyncOutcomes : WriteDocument(r, y)

SpecConverge ==
    /\ Init /\ [][NextConverge]_vars
    /\ WF_vars(\E r \in inflight : ReadDocument(r))
    /\ WF_vars(\E r \in inflight, y \in SyncOutcomes : WriteDocument(r, y))

(***************************************************************************)
(* Properties of the tenant routes and of the policy document              *)
(***************************************************************************)
IsTenantCreate == resp.ep = "POST /teams"
IsTenantPatch == resp.ep = "PATCH /teams/:team_id"
IsTenantDelete == resp.ep = "DELETE /teams/:team_id"

\* The entries of the document keyed by extID.
DocEntries(extID) == {e \in doc.limits : e.ext_id = extID}

\* The text holds the ext_id between double quotes.
HoldsLiteral(text, extID) ==
    \E i \in 1..(Len(text) - 2) : SubSeq(text, i, i + 2) = <<"\"", extID, "\"">>

C15_FailedSyncKeepsWrite ==
    [][(/\ resp'.ep \in {"POST /teams", "PATCH /teams/:team_id", "DELETE /teams/:team_id"}
        /\ resp'.req.sync = "failed"
        /\ teams' # teams)
       => /\ resp'.status = 200
          /\ doc' = doc
          /\ resp'.ep = "POST /teams"
               => \E t \in teams' : t.ext_id = resp'.req.ext_id /\ t.id = resp'.body.id
          /\ resp'.ep = "PATCH /teams/:team_id"
               => \E t \in teams' : /\ t.ext_id = resp'.req.team_id
                                    /\ t.rate_limit = resp'.body.rate_limit
                                    /\ t.rate_window = resp'.body.rate_window
          /\ resp'.ep = "DELETE /teams/:team_id"
               => \A t \in teams' : t.ext_id # resp'.req.team_id]_vars

\* C15, its case: a tenant was created while the orchestrator failed; the
\* answer is 200, the row is stored and the document does not name it.
C15_CreatedWithoutSync ==
    /\ IsTenantCreate /\ resp.status = 200 /\ resp.req.sync = "failed"
    /\ ~IsNull(GetTeamByExtID(resp.req.ext_id))
    /\ DocEntries(resp.req.ext_id) = {}

\* C19: a tenant create (POST /teams) or update (PATCH /teams/{ref})
\* request with rate_limit = 0 is answered with 400 and creates or changes
\* no tenant row.
C19_ZeroRateLimitAnswers400 ==
    [][(\/ resp'.ep = "POST /teams" /\ resp'.req.rate_limit = 0
        \/ /\ resp'.ep = "PATCH /teams/:team_id"
           /\ resp'.req.patch.has_rate_limit /\ resp'.req.patch.rate_limit = 0)
       => /\ resp'.status = 400
          /\ teams' = teams]_vars

\* C19, the diverging state: a PATCH with rate_limit = 0 was answered 200
\* and the tenant's stored rate limit is 0.
C19_ZeroRateLimitStored ==
    /\ IsTenantPatch /\ resp.status = 200
    /\ resp.req.patch.has_rate_limit /\ resp.req.patch.rate_limit = 0
    /\ GetTeamByExtID(resp.req.team_id).rate_limit = 0

Digits == {"0", "1", "2", "3", "4", "5", "6", "7", "8", "9"}
WindowUnits == {"s", "m", "h", "d", "w", "y"}

\* ^[0-9]+(s|m|h|d|w|y)$
MatchesRateWindow(w) ==
    /\ Len(w) >= 2
    /\ \A i \in 1..(Len(w) - 1) : w[i] \in Digits
    /\ w[Len(w)] \in WindowUnits

\* C20: a tenant create or update request whose rate_window does not match
\* ^[0-9]+(s|m|h|d|w|y)$ is answered with 400 and creates or changes no
\* tenant row, so the rate_window of every stored tenant matches the
\* pattern.  (A create request that names no window asks for the default.)
C20_BadRateWindowAnswers400 ==
    [][/\ (\/ /\ resp'.ep = "POST /teams"
              /\ resp'.req.rate_window # <<>>
              /\ ~MatchesRateWindow(resp'.req.rate_window)
           \/ /\ resp'.ep = "PATCH /teams/:team_id"
              /\ resp'.req.patch.has_rate_window
              /\ ~MatchesRateWindow(resp'.req.patch.rate_window))
          => /\ resp'.status = 400
             /\ teams' = teams
       /\ \A t \in teams' : MatchesRateWindow(t.rate_window)]_vars

\* C20, the diverging state: a create request with the window "1x" was
\* answered 200 and the tenant is stored with it.
C20_BadRateWindowStored ==
    /\ IsTenantCreate /\ resp.status = 200 /\ resp.req.rate_window = <<"1", "x">>
    /\ GetTeamByExtID(resp.req.ext_id).rate_window = <<"1", "x">>

(***************************************************************************)
(* Properties of the cascade delete under concurrency                      *)
(***************************************************************************)
\* C11: after DELETE /teams/{T} returns success no credential with
\* tenant_id = T is in the store, also when mints for T run concurrently
\* with the delete: no credential ever outlives its tenant (every stored
\* credential's team_id is the id of a stored tenant), and the step that
\* answers the DELETE with success leaves no credential of T.
C11_NoCredentialSurvivesTenant ==
    /\ \A k \in api_keys : ~IsNull(GetTeamByID(k.team_id))
    /\ (IsTenantDelete /\ resp.status = 200) => ListTeamAPIKeys(resp.body.team_id) = {}

\* C11, its case: the DELETE of T has been answered with success while a
\* mint for T, begun before, has not yet made its INSERT.
C11_MintPendingAfterDelete ==
    /\ IsTenantDelete /\ resp.status = 200
    /\ \E r \in inflight : r.op = "CreateTeamKey" /\ r.team_id = resp.body.team_id
    /\ IsNull(GetTeamByID(resp.body.team_id))

\* C12: the cascaded_key_count of a successful DELETE /teams/{T} equals the
\* number of credentials of T that the delete removed, for every
\* interleaving with concurrent credential creations and deletions under T.
C12_CountEqualsRemoved ==
    [][(resp'.ep = "DELETE /teams/:team_id" /\ resp'.status = 200)
       => resp'.body.cascaded_key_count = Cardinality(api_keys \ api_keys')]_vars

\* C12, the diverging state: the transaction of the DELETE has counted one
\* credential of T, and DELETE /keys/{name} has since removed it and been
\* answered 200; the cascade will remove none.
C12_CountedKeyAlreadyGone ==
    /\ resp.ep = "DELETE /keys/:key_name" /\ resp.status = 200
    /\ \E r \in inflight :
          /\ r.op = "DeleteTeam" /\ r.pc = "counted" /\ r.key_count = 1
          /\ ListTeamAPIKeys(r.team_id) = {}

(***************************************************************************)
(* Properties of concurrent PATCHes                                        *)
(***************************************************************************)
\* C18: every PATCH /teams/{ref} that changes the tenant's stored
\* rate_limit or rate_window attempts Reconciler.Upsert after the update
\* has committed, with the committed limit and window, also when several
\* PATCHes of the same tenant run concurrently.  The orchestrator being
\* reachable, an attempted Upsert is a written entry: the step that answers
\* such a PATCH leaves the document with the entry of the tenant's ext_id
\* holding the limit and window the step stored.
C18_RateChangeIsUpserted ==
    [][(/\ resp'.ep = "PATCH /teams/:team_id" /\ resp'.status = 200
        /\ \E t \in teams : /\ t.id = resp'.body.id
                            /\ \/ t.rate_limit # resp'.body.rate_limit
                               \/ t.rate_window # resp'.body.rate_window)
       => \E e \in doc'.limits : /\ e.ext_id = resp'.body.ext_id
                                 /\ e.limit = resp'.body.rate_limit
                                 /\ e.window = resp'.body.rate_window]_vars

\* C18, the diverging state: a PATCH has been answered 200, the tenant is
\* stored with the rate limit of the request, and the document, every write
\* of which has succeeded, holds another limit for the tenant.
C18_DocumentKeepsOverwrittenLimit ==
    /\ IsTenantPatch /\ resp.status = 200 /\ resp.req.patch.has_rate_limit
    /\ inflight = {}
    /\ \E t \in teams : /\ t.id = resp.body.id
                        /\ t.rate_limit = resp.req.patch.rate_limit
                        /\ \E e \in DocEntries(t.ext_id) : e.limit # t.rate_limit

(***************************************************************************)
(* Properties of the reconciliation of the policy document                 *)
(***************************************************************************)
\* C16: reconciliations of the one policy document are serialized: when
\* Upsert and Remove operations of different tenants run concurrently and
\* each succeeds, no entry written by one is lost or resurrected by the
\* read-modify-write of another: a step that rewrites the document for one
\* ext_id leaves the entries of every other ext_id as they were.
C16_WriteKeepsOtherTenants ==
    [][doc' # doc
       => \A x \in SuccessiveExtIDs \ {resp'.body.ext_id} :
             {e \in doc'.limits : e.ext_id = x} = DocEntries(x)]_vars

\* C16, its case: the call for one tenant has rewritten the document while
\* the call for another tenant holds the document it read before, and must
\* read again.
C16_StaleReadOfOtherTenant ==
    /\ resp.status = 200 /\ resp.ep \in {"POST /teams", "DELETE /teams/:team_id"}
    /\ resp.req.sync = "ok"
    /\ \E r \in inflight : /\ r.pc = "read" /\ r.seen # doc
                           /\ r.ref # resp.body.ext_id
                           /\ r.seen.exists

\* The document holds exactly one entry per stored tenant, with the tenant's
\* rate_limit and rate_window.
Converged ==
    doc.limits = {LimitEntry(t.ext_id, t.rate_limit, t.rate_window) : t \in teams}

TenantMutation == teams' # teams
FailedReconcile ==
    /\ Cardinality(inflight') < Cardinality(inflight)
    /\ resp'.req.sync = "failed"

\* C17: the policy document eventually converges to the database state:
\* once tenant mutations stop and the orchestrator is reachable (from some
\* point on no step changes the teams table and no call of PolicyManager
\* fails), the document comes to hold, and keeps, exactly one entry per
\* stored tenant with that tenant's rate_limit and rate_window, even if
\* earlier attempts failed.
C17_DocumentConverges ==
    <>[][~TenantMutation /\ ~FailedReconcile]_vars => <>[]Converged

\* C17, the diverging state: a tenant is stored, its creation has been
\* answered 200 after the failed call, no request is in flight, and the
\* document has no entry for it; no step of the program is pending.
C17_QuiescentAndDiverged ==
    /\ IsTenantCreate /\ resp.status = 200 /\ resp.req.sync = "failed"
    /\ inflight = {}
    /\ ~IsNull(GetTeamByExtID(resp.body.ext_id))
    /\ ~Converged

(***************************************************************************)
(* Properties of the stored tenant row                                     *)
(***************************************************************************)
\* C21: after any sequence of tenant creations and PATCHes, the
\* rate_limit_spec of every stored tenant is the JSON derived from the
\* tenant's current rate_limit and rate_window.
C21_SpecDerivedFromScalars ==
    \A t \in teams : t.rate_limit_spec = DerivedRateLimitSpec(t.rate_limit, t.rate_window)

\* C21, the diverging state: a tenant created without a rate_limit_spec has
\* been PATCHed to another rate_limit, and its rate_limit_spec is still the
\* JSON of the limit it was created with.
C21_SpecOfFormerLimit ==
    /\ IsTenantPatch /\ resp.status = 200 /\ resp.req.patch.has_rate_limit
    /\ \E t \in teams :
          /\ t.id = resp.body.id /\ t.rate_limit = 20
          /\ t.rate_limit_spec = DerivedRateLimitSpec(DefaultRateLimit, t.rate_window)

(***************************************************************************)
(* GET /profile statement by statement, with concurrent calls.  Every      *)
(* repository call is its own autocommitted statement.                     *)
(***************************************************************************)
\* FindUserByKeycloakID at the start of the handler
ProfileFind(subject, roles) ==
    LET found == FindUserByKeycloakID(subject)
    IN  /\ UserRoutesGate(subject, roles) = 0
        /\ CanAccept
        /\ inflight' = inflight \cup
              {[NewRequest("Profile", Caller(subject, roles), subject) EXCEPT
                   !.pc = IF IsNull(found) THEN "missing" ELSE "found",
                   !.user_id = IF IsNull(found) THEN "" ELSE found.id]}
        /\ UNCHANGED <<store, doc, resp>>

\* Repository.CreateUser: the INSERT fails on users.keycloak_user_id UNIQUE
\* when a row of the subject has been stored since the lookup.
ProfileCreateUser(r) ==
    LET user == CreateUser(r.ref)
    IN  /\ r.op = "Profile" /\ r.pc = "missing"
        /\ UNCHANGED <<teams, policies, memberships, models, grants, api_keys, doc>>
        /\ IF ~IsNull(FindUserByKeycloakID(r.ref))
           THEN /\ Respond("GET /profile", r.caller, NoParams, 500,
                           ErrorBody("failed to create user"))
                /\ Finish(r)
                /\ UNCHANGED users
           ELSE /\ users' = users \cup {user}
                /\ Step(r, [r EXCEPT !.pc = "found", !.user_id = user.id])
                /\ UNCHANGED resp

\* GetTeamByExtID("default") and IsTeamMember
ProfileCheckMember(r) ==
    LET defaultTeam == GetTeamByExtID("default")
    IN  /\ r.op = "Profile" /\ r.pc = "found"
        /\ UNCHANGED <<store, doc>>
        /\ IF ~IsNull(defaultTeam) /\ ~IsTeamMember(defaultTeam.id, r.user_id)
           THEN /\ Step(r, [r EXCEPT !.pc = "join", !.team_id = defaultTeam.id])
                /\ UNCHANGED resp
           ELSE /\ Respond("GET /profile", r.caller, NoParams, 200,
                           [id |-> r.user_id, keycloak_user_id |-> r.ref])
                /\ Finish(r)

\* Repository.AddUserToTeam, whose error (the membership or no tenant by
\* now) is logged and not returned, and the answer.
ProfileJoin(r) ==
    /\ r.op = "Profile" /\ r.pc = "join"
    /\ UNCHANGED <<users, teams, policies, models, grants, api_keys, doc>>
    /\ memberships' =
         IF ~IsNull(GetTeamByID(r.team_id)) /\ ~IsTeamMember(r.team_id, r.user_id)
         THEN memberships \cup {[team_id |-> r.team_id, user_id |-> r.user_id,
                                 role |-> "member"]}
         ELSE memberships
    /\ Respond("GET /profile", r.caller, NoParams, 200,
               [id |-> r.user_id, keycloak_user_id |-> r.ref])
    /\ Finish(r)

NextProfile ==
    \/ \E e \in ExtIDs : CreateTeam(FirstSubject, <<"maas-admin">>, e, 0, <<>>, "ok")
    \/ \E s \in Subjects : ProfileFind(s, <<"maas-user">>)
    \/ \E r \in inflight : ProfileCreateUser(r)
    \/ \E r \in inflight : ProfileCheckMember(r)
    \/ \E r \in inflight : ProfileJoin(r)

SpecProfile == Init /\ [][NextProfile]_vars

(***************************************************************************)
(* Properties of the error mapping of the creating endpoints               *)
(***************************************************************************)
\* The request of the step passes every check KeysHandler.CreateUserKey
\* makes before it calls Manager.CreateTeamKey.
UserMintReachesStore(caller, req) ==
    LET requester == FindUserByKeycloakID(caller.subject)
        target == TargetUser(req.user_id, requester)
    IN  /\ ~IsNull(requester)
        /\ req.user_id = "me" \/ IsUUID(req.user_id)
        /\ SelfOrAdmin(caller.roles, requester.id, target)
        /\ req.body_ok
        /\ IF req.team_id # "" THEN ~IsNull(resolveTeamRef(req.team_id))
           ELSE GetUserTeamMemberships(target) # {}

\* C22: a uniqueness violation on tenant ext_id (or name) or on the
\* credential prefix is answered with 409 Conflict by the creating endpoint
\* (POST /teams, POST /teams/{ref}/keys, POST /users/{ref}/keys), never with
\* 500, and leaves the stored rows unchanged.
C22_UniqueViolationAnswers409 ==
    [][(/\ UserRoutesGate(resp'.caller.subject, resp'.caller.roles) = 0
        /\ \/ /\ resp'.ep = "POST /teams"
              /\ ~IsNull(GetTeamByExtID(resp'.req.ext_id))
           \/ /\ resp'.ep = "POST /teams/:team_id/keys"
              /\ ~IsNull(resolveTeamRef(resp'.req.team_id))
              /\ IsUUID(resp'.req.user_id)
              /\ ~IsNull(GetAPIKeyByPrefix(resp'.req.drawn))
           \/ /\ resp'.ep = "POST /users/:user_id/keys"
              /\ UserMintReachesStore(resp'.caller, resp'.req)
              /\ ~IsNull(GetAPIKeyByPrefix(resp'.req.drawn)))
       => /\ resp'.status = 409
          /\ teams' = teams /\ api_keys' = api_keys]_vars

\* C22, the diverging state: a mint for a stored tenant drew the prefix of a
\* stored credential and was answered 500.
C22_PrefixClashAnswers500 ==
    /\ resp.ep = "POST /teams/:team_id/keys" /\ resp.status = 500
    /\ ~IsNull(resolveTeamRef(resp.req.team_id)) /\ IsUUID(resp.req.user_id)
    /\ ~IsNull(GetAPIKeyByPrefix(resp.req.drawn))

\* C23: GET /teams/{ref} answers 404 only when no tenant has the reference;
\* when the store fails during the lookup the answer is 500, never 404.
C23_NotFoundOnlyWhenAbsent ==
    (resp.ep = "GET /teams/:team_id"
        /\ UserRoutesGate(resp.caller.subject, resp.caller.roles) = 0)
    => /\ resp.status = 404 => (~resp.req.fault /\ IsNull(resolveTeamRef(resp.req.team_id)))
       /\ resp.req.fault => resp.status = 500

\* C23, the diverging state: the lookup of a stored tenant failed in the
\* store and the caller was told the tenant does not exist.
C23_StoreFailureAnswers404 ==
    /\ resp.ep = "GET /teams/:team_id" /\ resp.status = 404
    /\ resp.req.fault /\ ~IsNull(resolveTeamRef(resp.req.team_id))

\* C24: grant creation with its implicit model upsert is atomic: when
\* POST /teams/{ref}/grants fails at any step, no model row inserted by that
\* request remains.
C24_FailedGrantInsertsNoModel ==
    [][(/\ resp'.ep = "POST /teams/:team_id/grants"
        /\ UserRoutesGate(resp'.caller.subject, resp'.caller.roles) = 0
        /\ resp'.status # 200)
       => models' = models]_vars

\* C24, the diverging state: the request was answered 500 and the model it
\* named is stored although no grant names it.
C24_ModelLeftByFailedGrant ==
    /\ resp.ep = "POST /teams/:team_id/grants" /\ resp.status = 500
    /\ ~IsNull(ModelByName(resp.req.model_id))
    /\ grants = {}

(***************************************************************************)
(* Properties of the user reference of a mint                              *)
(***************************************************************************)
\* The user a reference names: the user with that id, else the user with that
\* external identifier, else none.
NamedUser(ref) ==
    IF \E u \in users : u.id = ref THEN ref
    ELSE IF \E u \in users : u.keycloak_user_id = ref
         THEN (CHOOSE u \in users : u.keycloak_user_id = ref).id
    ELSE NULL

\* C25: on POST /teams/{ref}/keys the user reference is resolved as a user
\* id first, then as the external identifier; the stored credential carries
\* the resolved user, and when neither resolves the mint still succeeds with
\* user null.
C25_MintResolvesUserReference ==
    [][(/\ resp'.ep = "POST /teams/:team_id/keys"
        /\ UserRoutesGate(resp'.caller.subject, resp'.caller.roles) = 0
        /\ ~IsNull(resolveTeamRef(resp'.req.team_id))
        /\ IsNull(GetAPIKeyByPrefix(resp'.req.drawn)))
       => /\ resp'.status = 200
          /\ \E k \in api_keys' \ api_keys : k.user_id = NamedUser(resp'.req.user_id)]_vars

\* C25, the diverging state: the reference is the external identifier of a
\* stored user, and the mint was answered 500 with no credential stored.
C25_ExternalReferenceAnswers500 ==
    /\ resp.ep = "POST /teams/:team_id/keys" /\ resp.status = 500
    /\ ~IsNull(resolveTeamRef(resp.req.team_id))
    /\ \E u \in users : u.keycloak_user_id = resp.req.user_id
    /\ api_keys = {}

(***************************************************************************)
(* Properties of what the listings disclose                                *)
(***************************************************************************)
\* C26: the plaintext of a credential is disclosed only by the response to
\* the request that minted it: no answer of GET /teams/{ref}/keys or
\* GET /users/{ref}/keys holds the plaintext or the stored hash of a
\* credential.
C26_ListingsHoldNoSecret ==
    /\ (resp.ep = "GET /teams/:team_id/keys" /\ resp.status = 200)
         => \A x \in resp.body.keys, k \in api_keys :
              x.key_hash # k.plaintext /\ x.key_hash # k.key_hash
    /\ (resp.ep = "GET /users/:user_id/keys" /\ resp.status = 200)
         => \A x \in resp.body.keys, k \in api_keys :
              x.key # k.plaintext /\ x.key # k.key_hash

\* C26, the diverging state: the listing of a tenant's credentials holds, as
\* key_hash, the plaintext that the mint handed out.
C26_TenantListingHoldsPlaintext ==
    /\ resp.ep = "GET /teams/:team_id/keys" /\ resp.status = 200
    /\ \E x \in resp.body.keys, k \in api_keys :
         x.id = k.id /\ x.key_hash = k.plaintext

(***************************************************************************)
(* Properties of the membership endpoints                                  *)
(***************************************************************************)
\* C27: after POST /teams/{ref}/members for user U succeeds the membership
\* of U in the tenant exists, with role member by default, and
\* GET /teams/{ref}/members lists the users that hold a membership.
C27_AddedMemberIsStoredAndListed ==
    /\ (resp.ep = "POST /teams/:team_id/members" /\ resp.status = 200)
         => \E m \in memberships :
              /\ m.team_id = resolveTeamRef(resp.req.team_id).id
              /\ m.user_id = NamedUser(resp.req.user_id)
              /\ m.role = "member"
    /\ (resp.ep = "GET /teams/:team_id/members" /\ resp.status = 200)
         => resp.body.members =
              {m.user_id : m \in {x \in memberships :
                                    x.team_id = resolveTeamRef(resp.req.team_id).id}}

\* C27, the diverging state: a stored user was added to a stored tenant, the
\* answer was 200, and no membership is stored.
C27_AddedMemberNotStored ==
    /\ resp.ep = "POST /teams/:team_id/members" /\ resp.status = 200
    /\ ~IsNull(resolveTeamRef(resp.req.team_id))
    /\ NamedUser(resp.req.user_id) # NULL
    /\ memberships = {}

(***************************************************************************)
(* Properties of the roles header                                          *)
(***************************************************************************)
RoleSet(roles) == {roles[i] : i \in 1..Len(roles)}

\* C28: the JSON array, the bracketed comma list and the plain comma list,
\* with or without a blank after the commas, of the same roles are
\* normalised to the same set of roles, so that every role gate decides as
\* it does on the roles themselves whichever encoding is sent.
C28_EncodingsDecideAlike ==
    resp.ep = "auth chain"
    => /\ RoleSet(resp.caller.roles) = RoleSet(resp.req.roles)
       /\ resp.caller.subject # "" => resp.status = RoleGate(resp.req.gate, resp.req.roles)

\* C28, the diverging state: key-manager's middleware refuses an admin whose
\* role arrives as a JSON array.
C28_JSONArrayAdminRefused ==
    /\ resp.ep = "auth chain" /\ resp.req.parser = "key-manager"
    /\ resp.req.form = "json" /\ resp.req.roles = <<"maas-admin">>
    /\ resp.caller.subject # "" /\ resp.status = 403

(***************************************************************************)
(* Properties of deletion as introspection sees it                         *)
(***************************************************************************)
\* Every introspection that names a plaintext of the set is answered
\* active = false in the state.
AnsweredInactive(plaintexts) ==
    \A q \in PlaintextRequests, f \in ByteaForms :
        q.token \in plaintexts => ~IntrospectResult(q, f, "none").body.active

\* The plaintexts a successful DELETE may have removed: those of the prefix
\* named to DELETE /keys/{prefix}; for DELETE /teams/{T}, those that no
\* credential of another tenant has.
RemovedPlaintexts ==
    IF resp.ep = "DELETE /keys/:key_name" /\ resp.status = 200
    THEN {t \in KeySpace : SubSeq(t, 1, PrefixLen) = resp.req.key_name}
    ELSE IF resp.ep = "DELETE /teams/:team_id" /\ resp.status = 200
    THEN {t \in KeySpace : \A k \in api_keys : k.plaintext # t}
    ELSE {}

\* C29: once DELETE /keys/{prefix} or DELETE /teams/{T} has answered
\* success, every introspection with the plaintext of a credential the call
\* removed is answered active = false, and so is every later introspection
\* of a plaintext that no stored credential has.
C29_RemovedCredentialInactive ==
    [][/\ AnsweredInactive(RemovedPlaintexts)
       /\ (resp'.ep = "POST /introspect"
            /\ \A k \in api_keys : k.plaintext # resp'.req.token)
           => ~resp'.body.active]_vars

\* C29, its case: DELETE /keys/{prefix} has just removed the one credential
\* of a tenant with a default policy whose members include the users, so
\* that the credential introspected as active, and the introspection of
\* every plaintext is now answered active = false.
C29_ActiveCredentialRemoved ==
    /\ resp.ep = "DELETE /keys/:key_name" /\ resp.status = 200
    /\ \E t \in teams :
         /\ t.id = resp.body.team_id /\ ~IsNull(GetPolicy(t.default_policy_id))
         /\ \E m \in memberships : m.team_id = t.id
    /\ api_keys = {}
    /\ \A q \in PlaintextRequests, f \in ByteaForms :
         ~IntrospectResult(q, f, "none").body.active

(***************************************************************************)
(* Properties of the profile bootstrap                                     *)
(***************************************************************************)
\* C30: GET /profile is an idempotent bootstrap under sequential and
\* concurrent calls by one subject: the subject has at most one user row, a
\* user at most one membership in a tenant, and every call is answered with
\* the user record of the subject rather than with a failure.
C30_ProfileAlwaysAnswersUser ==
    /\ \A s \in Subjects : Cardinality({u \in users : u.keycloak_user_id = s}) <= 1
    /\ \A u \in users, t \in teams :
         Cardinality({m \in memberships : m.user_id = u.id /\ m.team_id = t.id}) <= 1
    /\ (resp.ep = "GET /profile"
         /\ UserRoutesGate(resp.caller.subject, resp.caller.roles) = 0)
        => /\ resp.status = 200
           /\ \E u \in users :
                u.id = resp.body.id /\ u.keycloak_user_id = resp.caller.subject

\* C30, the diverging state: a call by a subject whose user row is stored
\* was answered 500.
C30_ConcurrentProfileAnswers500 ==
    /\ resp.ep = "GET /profile" /\ resp.status = 500
    /\ \E u \in users : u.keycloak_user_id = resp.caller.subject

====
